---- MODULE Spec2Model ----
(***************************************************************************)
(* A model of youtube-recommend's LLM pipeline: the two response parsers   *)
(* (server/services/analyzer.ts, server/services/recommender.ts), the two  *)
(* orchestrators analyzeTaste / generateRecommendations, and the           *)
(* process-wide provider cache of server/services/llm/index.ts.            *)
(*                                                                         *)
(* Texts are sequences of lexical tokens (whitespace, newline, a code      *)
(* fence, the word json, another tag word, non-JSON text, a JSON           *)
(* document).  JSON documents are JavaScript values tagged with their      *)
(* runtime type.  Numbers are exact rationals num/den; a number n drawn for *)
(* a response stands for n/Scale.                                          *)
(***************************************************************************)
EXTENDS Integers, Sequences, FiniteSets, TLC

VARIABLES
    content,      \* the response text handed to the parsers
    payload,      \* the JSON document the text was built around
    wrap,         \* how the text was built around the payload
    analysisOut,  \* outcome of parseAnalysisResponse(content)
    recsOut,      \* outcome of parseRecommendationsResponse(content)
    env,          \* process.env.GITHUB_TOKEN ("" when unset)
    cachedProvider, \* llm/index.ts module variable (NoProvider = null)
    nextId,       \* identity of the next GitHubModelsProvider instance
    got,          \* what each caller of getLLMProvider / isLLMConfigured got
    calls,        \* log of complete(messages, options) invocations
    fetches,      \* number of network requests issued by the provider
    req,          \* the orchestrator invocations in flight
    engine,       \* how the runtime's JSON.parse words a SyntaxError
    reparsed,     \* outcome of parsing the stored (serialized) analysis result
    inst,         \* a GitHubModelsProvider constructed directly
    pcall,        \* the invocations of inst.complete
    http,         \* the POST /api/analyze and /api/recommendations requests
    db,           \* the rows the database holds for the session's user
    arg,          \* the arguments given to the prompt formatters
    txt,          \* the texts the prompt formatters returned
    yt            \* a call of fetchLikedVideos / fetchSubscriptions

vars == <<content, payload, wrap, analysisOut, recsOut, env, cachedProvider,
          nextId, got, calls, fetches, req, engine, reparsed, inst, pcall,
          http, db, arg, txt, yt>>

parseVars == <<content, payload, wrap, analysisOut, recsOut, reparsed>>
llmVars == <<env, cachedProvider, nextId, got, calls, fetches, req>>
provVars == <<inst, pcall>>
apiVars == <<http, db>>
extVars == <<arg, txt, yt>>

----------------------------------------------------------------------------
(* Bounds of the model *)

\* longest categories / recommendations list drawn
MaxItems == 3
\* an input number n stands for n/Scale; inputs range over -1 .. Scale+1
Scale == 2

----------------------------------------------------------------------------
(* JavaScript values, tagged with their runtime type *)

JSVal(ty, num, str) == [ty |-> ty, num |-> num, den |-> Scale, str |-> str]
Undefined == JSVal("undefined", 0, "")
JSNull == JSVal("null", 0, "")
JSNum(n) == JSVal("number", n, "")
\* the number n/d
JSRat(n, d) == [JSVal("number", n, "") EXCEPT !.den = d]
JSStr(s) == JSVal("string", 0, s)
JSObj == JSVal("object", 0, "")

\* typeof v
TypeOf(v) ==
    IF v.ty \in {"null", "array", "object"} THEN "object" ELSE v.ty

\* the truthiness the code tests with !v
Truthy(v) ==
    CASE v.ty = "undefined" -> FALSE
      [] v.ty = "null" -> FALSE
      [] v.ty = "boolean" -> v.num = 1
      [] v.ty = "number" -> v.num # 0
      [] v.ty = "string" -> v.str # ""
      [] OTHER -> TRUE

\* a property holding a list: ty is "array" or the type of what is there instead
JSList(ty, items) == [ty |-> ty, items |-> items]
NoList == JSList("undefined", <<>>)

\* an entry of `categories`: any JSON value; its properties when it is an object
CatEntry(ty, name, weight, description, subCategories) ==
    [ty |-> ty, num |-> 0, str |-> "", name |-> name, weight |-> weight,
     description |-> description, subCategories |-> subCategories]

\* an entry of `recommendations`
RecEntry(ty, type, channelTitle, reason, category, confidenceScore, channelId, subscriberCount) ==
    [ty |-> ty, num |-> 0, str |-> "", type |-> type,
     channelTitle |-> channelTitle, reason |-> reason, category |-> category,
     confidenceScore |-> confidenceScore, channelId |-> channelId,
     subscriberCount |-> subscriberCount]

\* a JSON document: the top-level value with the properties the parsers read
Doc(ty, num, str, categories, analysisSummary, recommendations) ==
    [ty |-> ty, num |-> num, str |-> str, categories |-> categories,
     analysisSummary |-> analysisSummary, recommendations |-> recommendations]

ScalarDoc(v) == Doc(v.ty, v.num, v.str, NoList, Undefined, NoList)
NoDoc == ScalarDoc(Undefined)

----------------------------------------------------------------------------
(* Texts: sequences of lexical tokens *)

Tok(k) == [k |-> k, doc |-> NoDoc]
WS == Tok("ws")            \* a blank or tab
NL == Tok("nl")            \* "\n"
FENCE == Tok("fence")      \* three backticks
JSONWORD == Tok("json")    \* the four letters json
TAGWORD == Tok("tag")      \* a language tag other than json, e.g. javascript
GARBAGE == Tok("garbage")  \* text that is no JSON, e.g. not json {
PARTIAL == Tok("partial")  \* a JSON document cut short, e.g. {"categories": [
DocTok(d) == [k |-> "doc", doc |-> d]  \* the serialization of document d

IsSpace(t) == t.k \in {"ws", "nl"}

Max(a, b) == IF a >= b THEN a ELSE b
Min(a, b) == IF a <= b THEN a ELSE b

RECURSIVE TrimStart(_)
TrimStart(s) ==
    IF s # <<>> /\ IsSpace(Head(s)) THEN TrimStart(Tail(s)) ELSE s

RECURSIVE TrimEnd(_)
TrimEnd(s) ==
    IF s # <<>> /\ IsSpace(s[Len(s)])
    THEN TrimEnd(SubSeq(s, 1, Len(s) - 1))
    ELSE s

\* String.prototype.trim
Trim(s) == TrimEnd(TrimStart(s))

\* s.startsWith('```')
StartsWithFence(s) == s # <<>> /\ Head(s).k = "fence"

DropIf(s, k) == IF s # <<>> /\ Head(s).k = k THEN Tail(s) ELSE s
DropLastIf(s, k) ==
    IF s # <<>> /\ s[Len(s)].k = k THEN SubSeq(s, 1, Len(s) - 1) ELSE s

\* a variant that knows no language tag: /^```\n?/
StripOpenFenceNoTag(s) ==
    IF StartsWithFence(s) THEN DropIf(Tail(s), "nl") ELSE s

\* s.replace(/^```(?:json)?\n?/, '')
StripOpenFence(s) ==
    IF StartsWithFence(s)
    THEN DropIf(DropIf(Tail(s), "json"), "nl")
    ELSE s

\* s.replace(/\n?```$/, '')
StripCloseFence(s) ==
    IF s # <<>> /\ s[Len(s)].k = "fence"
    THEN DropLastIf(SubSeq(s, 1, Len(s) - 1), "nl")
    ELSE s

\* the fence-stripped text handed to JSON.parse
FenceStripped(text) ==
    LET jsonContent == Trim(text)
    IN IF StartsWithFence(jsonContent)
       THEN StripCloseFence(StripOpenFence(jsonContent))
       ELSE jsonContent

\* the SyntaxError of JSON.parse: what its message says went wrong, where,
\* and the part of the source text the message quotes
SyntaxError(reason, position, excerpt) ==
    [name |-> "SyntaxError", reason |-> reason, position |-> position,
     excerpt |-> excerpt]
NoSyntaxError == [name |-> "", reason |-> "", position |-> 0, excerpt |-> <<>>]

\* the wording of the runtime: "Unexpected token o in JSON at position 1", or
\* "Unexpected token 'o', "not json {" is not valid JSON", which quotes the
\* source around the offending token
Engines == {"position", "excerpt"}

\* positions of the tokens of s that are no JSON whitespace
NonSpace(s) == {i \in 1..Len(s) : ~IsSpace(s[i])}

\* the source text a message of the quoting runtime shows: the offending
\* token and its neighbours
Excerpt(s, p) == SubSeq(s, Max(1, p - 1), Min(Len(s), p + 1))

\* the SyntaxError JSON.parse throws on a text that is no JSON document
JSONError(s, wording) ==
    LET at == NonSpace(s)
        first == CHOOSE i \in at : \A j \in at : i <= j
        rest == at \ {first}
        second == CHOOSE i \in rest : \A j \in rest : i <= j
    IN IF at = {} \/ (s[first].k = "partial" /\ rest = {})
       THEN SyntaxError("Unexpected end of JSON input", Len(s) + 1, <<>>)
       ELSE IF s[first].k = "doc"
       THEN SyntaxError(IF wording = "excerpt"
                        THEN "Unexpected non-whitespace character after JSON"
                        ELSE "Unexpected token",
                        second, <<>>)
       ELSE LET p == IF s[first].k = "partial" THEN second ELSE first
            IN SyntaxError("Unexpected token", p,
                           IF wording = "excerpt" THEN Excerpt(s, p) ELSE <<>>)

\* JSON.parse: JSON whitespace around exactly one document, else a SyntaxError
JSONParse(s) ==
    LET t == Trim(s)
    IN IF Len(t) = 1 /\ t[1].k = "doc"
       THEN [ok |-> TRUE, value |-> t[1].doc, error |-> NoSyntaxError]
       ELSE [ok |-> FALSE, value |-> NoDoc, error |-> JSONError(s, engine)]

----------------------------------------------------------------------------
(* Failures: the messages the code throws, and the class each belongs to *)

MsgJSON == "Failed to parse LLM response as JSON"
MsgNotObject == "LLM response is not an object"
MsgNoCategories == "LLM response missing categories array"
MsgNoSummary == "LLM response missing analysisSummary string"
MsgCatNotObject == "Category is not an object"
MsgCatName == "Category missing name"
MsgCatWeight == "Category missing weight"
MsgCatDescription == "Category missing description"
MsgNoRecsList == "LLM response missing recommendations array"
MsgNoValidRecs == "No valid recommendations in LLM response"
MsgNoData == "No YouTube data available to analyze"
MsgNoTasteProfile == "No taste profile available"
MsgNoProvider == "No LLM provider configured"
MsgNotConfigured == "GitHub Models provider is not configured"
MsgProviderError == "GitHub Models API error"
MsgNoChoices == "GitHub Models API returned no choices"
MsgEmptyChoice == "GitHub Models API returned empty choice"
MsgHttpNotConfigured == "LLM service is not configured"
MsgHttpNoData == "No YouTube data found"
MsgHttpNoTasteProfile == "No taste profile found"
MsgDatabase == "SqliteError"
MsgAnalyzeFailed == "Failed to analyze taste profile"
MsgRecommendFailed == "Failed to generate recommendations"
MsgSyncFailed == "Failed to sync YouTube data"
MsgFetchSubscriptions == "Failed to fetch subscriptions"
MsgFetchLikedVideos == "Failed to fetch liked videos"

ErrorClass(msg) ==
    CASE msg = MsgJSON -> "MalformedResponse"
      [] msg \in {MsgNotObject, MsgNoCategories, MsgNoSummary, MsgCatNotObject,
                  MsgCatName, MsgCatWeight, MsgCatDescription, MsgNoRecsList}
           -> "InvalidShape"
      [] msg = MsgNoValidRecs -> "NoValidRecommendations"
      [] msg \in {MsgNoData, MsgHttpNoData} -> "NoData"
      [] msg \in {MsgNoTasteProfile, MsgHttpNoTasteProfile} -> "NoTasteProfile"
      [] msg \in {MsgNoProvider, MsgNotConfigured, MsgHttpNotConfigured}
           -> "NotConfigured"
      [] msg = MsgProviderError -> "ProviderError"
      [] msg \in {MsgNoChoices, MsgEmptyChoice} -> "EmptyResponse"
      [] OTHER -> "none"

----------------------------------------------------------------------------
(* parseAnalysisResponse *)

\* exact rationals, den > 0
Rat(num, den) == [num |-> num, den |-> den]

\* the value of a JavaScript number
NumberOf(v) == Rat(v.num, v.den)

\* x + y
RatAdd(x, y) ==
    IF x.den = y.den
    THEN Rat(x.num + y.num, x.den)
    ELSE Rat(x.num * y.den + y.num * x.den, x.den * y.den)

\* x / y, y > 0
RatDiv(x, y) ==
    IF x.den = y.den
    THEN Rat(x.num, y.num)
    ELSE Rat(x.num * y.den, x.den * y.num)

\* a bound clamp that forgets the upper bound
ClampNoUpper(x) == IF x.num < 0 THEN Rat(0, x.den) ELSE x

\* a clamp that forgets the lower bound
ClampNoLower(x) == IF x.num > x.den THEN Rat(x.den, x.den) ELSE x

\* Math.max(0, Math.min(1, x))
Clamp01(x) ==
    IF x.num < 0 THEN Rat(0, x.den)
    ELSE IF x.num > x.den THEN Rat(x.den, x.den)
    ELSE x

\* a filter that returns the empty list where there is no list
FilterSubCategoriesOrEmpty(sub) ==
    LET kept == IF sub.ty = "array"
                THEN SelectSeq(sub.items, LAMBDA s : TypeOf(s) = "string")
                ELSE <<>>
    IN [present |-> TRUE, items |-> [i \in 1..Len(kept) |-> kept[i].str]]

\* a filter that also drops the first string entry
FilterSubCategoriesDropFirst(sub) ==
    IF sub.ty = "array"
    THEN LET strings == SelectSeq(sub.items, LAMBDA s : TypeOf(s) = "string")
             kept == IF strings = <<>> THEN <<>> ELSE Tail(strings)
         IN [present |-> TRUE, items |-> [i \in 1..Len(kept) |-> kept[i].str]]
    ELSE [present |-> FALSE, items |-> <<>>]

\* category.subCategories.filter(s => typeof s === 'string'), or undefined
FilterSubCategories(sub) ==
    IF sub.ty = "array"
    THEN LET kept == SelectSeq(sub.items, LAMBDA s : TypeOf(s) = "string")
         IN [present |-> TRUE, items |-> [i \in 1..Len(kept) |-> kept[i].str]]
    ELSE [present |-> FALSE, items |-> <<>>]

\* the body of the categories.map callback: the message thrown ("" for none)
\* and the category built, its weight clamped
ValidateCategory(cat) ==
    LET none == [name |-> "", weight |-> Rat(0, 1), description |-> "",
                 subCategories |-> [present |-> FALSE, items |-> <<>>]]
    IN IF ~Truthy(cat) \/ TypeOf(cat) # "object"
       THEN [error |-> MsgCatNotObject, cat |-> none]
       ELSE IF TypeOf(cat.name) # "string"
       THEN [error |-> MsgCatName, cat |-> none]
       ELSE IF TypeOf(cat.weight) # "number"
       THEN [error |-> MsgCatWeight, cat |-> none]
       ELSE IF TypeOf(cat.description) # "string"
       THEN [error |-> MsgCatDescription, cat |-> none]
       ELSE [error |-> "",
             cat |-> [name |-> cat.name.str,
                      weight |-> Clamp01(NumberOf(cat.weight)),
                      description |-> cat.description.str,
                      subCategories |-> FilterSubCategories(cat.subCategories)]]

\* a loop that drops the entries it cannot use and goes on
RECURSIVE MapCategoriesSkipInvalid(_, _, _)
MapCategoriesSkipInvalid(items, i, acc) ==
    IF i > Len(items)
    THEN [error |-> "", index |-> -1, cats |-> acc]
    ELSE LET r == ValidateCategory(items[i])
         IN MapCategoriesSkipInvalid(items, i + 1,
                IF r.error # "" THEN acc ELSE Append(acc, r.cat))

\* response.categories.map(...): index order, the first throw ends it
RECURSIVE MapCategories(_, _, _)
MapCategories(items, i, acc) ==
    IF i > Len(items)
    THEN [error |-> "", index |-> -1, cats |-> acc]
    ELSE LET r == ValidateCategory(items[i])
         IN IF r.error # ""
            THEN [error |-> r.error, index |-> i - 1, cats |-> <<>>]
            ELSE MapCategories(items, i + 1, Append(acc, r.cat))

\* categories.reduce((sum, cat) => sum + cat.weight, 0)
RECURSIVE TotalWeight(_)
TotalWeight(cats) ==
    IF cats = <<>>
    THEN Rat(0, 1)
    ELSE RatAdd(TotalWeight(SubSeq(cats, 1, Len(cats) - 1)), cats[Len(cats)].weight)

\* a normalization that divides by the number of categories
NormalizeByCount(cats) ==
    [i \in 1..Len(cats) |->
        [cats[i] EXCEPT !.weight =
            Rat(cats[i].weight.num, cats[i].weight.den * Len(cats))]]

\* if (totalWeight > 0) cat.weight = cat.weight / totalWeight
Normalize(cats) ==
    LET totalWeight == TotalWeight(cats)
    IN [i \in 1..Len(cats) |->
          [cats[i] EXCEPT !.weight =
              IF totalWeight.num > 0
              THEN RatDiv(cats[i].weight, totalWeight)
              ELSE cats[i].weight]]

\* a thrown Error: its message (the fixed words, the ${index} and the ${e}
\* interpolated into it); an Error of these parsers has no other property
AnalysisError(msg, index) ==
    [status |-> "error", error |-> msg, index |-> index, detail |-> NoSyntaxError,
     categories |-> <<>>, analysisSummary |-> ""]
AnalysisNotRun ==
    [status |-> "none", error |-> "", index |-> -1, detail |-> NoSyntaxError,
     categories |-> <<>>, analysisSummary |-> ""]

\* shape checks made inside the try block of JSON.parse: a value that is no
\* object is reported as a JSON failure
ValidateAnalysisAsMalformed(parsed) ==
    IF ~Truthy(parsed) \/ TypeOf(parsed) # "object"
    THEN AnalysisError(MsgJSON, -1)
    ELSE IF parsed.categories.ty # "array"
    THEN AnalysisError(MsgNoCategories, -1)
    ELSE IF TypeOf(parsed.analysisSummary) # "string"
    THEN AnalysisError(MsgNoSummary, -1)
    ELSE LET m == MapCategories(parsed.categories.items, 1, <<>>)
         IN IF m.error # ""
            THEN AnalysisError(m.error, m.index)
            ELSE [status |-> "ok", error |-> "", index |-> -1,
                  detail |-> NoSyntaxError,
                  categories |-> Normalize(m.cats),
                  analysisSummary |-> parsed.analysisSummary.str]

\* the shape checks and the category loop, on the parsed value
ValidateAnalysis(parsed) ==
    IF ~Truthy(parsed) \/ TypeOf(parsed) # "object"
    THEN AnalysisError(MsgNotObject, -1)
    ELSE IF parsed.categories.ty # "array"
    THEN AnalysisError(MsgNoCategories, -1)
    ELSE IF TypeOf(parsed.analysisSummary) # "string"
    THEN AnalysisError(MsgNoSummary, -1)
    ELSE LET m == MapCategories(parsed.categories.items, 1, <<>>)
         IN IF m.error # ""
            THEN AnalysisError(m.error, m.index)
            ELSE [status |-> "ok", error |-> "", index |-> -1,
                  detail |-> NoSyntaxError,
                  categories |-> Normalize(m.cats),
                  analysisSummary |-> parsed.analysisSummary.str]

parseAnalysisResponse(text) ==
    LET parsed == JSONParse(FenceStripped(text))
    IN IF ~parsed.ok
       THEN [AnalysisError(MsgJSON, -1) EXCEPT !.detail = parsed.error]
       ELSE ValidateAnalysis(parsed.value)

----------------------------------------------------------------------------
(* parseRecommendationsResponse *)

RecTypes == {"channel", "hidden_gem", "content_gap"}

\* the default confidenceScore 0.7, as a rational
DefaultConfidenceNum == 7
DefaultConfidenceDen == 10

\* a required-field check that accepts the empty string
HasRequiredFieldsAllowEmpty(item) ==
    /\ TypeOf(item.channelTitle) = "string"
    /\ TypeOf(item.reason) = "string"

\* a check that also requires a recognized type
HasRequiredFieldsAndType(item) ==
    /\ TypeOf(item.channelTitle) = "string" /\ Truthy(item.channelTitle)
    /\ TypeOf(item.reason) = "string" /\ Truthy(item.reason)
    /\ TypeOf(item.type) = "string" /\ item.type.str \in RecTypes

\* the two `continue` conditions on an object entry's required fields
HasRequiredFields(item) ==
    /\ TypeOf(item.channelTitle) = "string" /\ Truthy(item.channelTitle)
    /\ TypeOf(item.reason) = "string" /\ Truthy(item.reason)

\* one pass of the loop body: whether the entry is skipped, and the item pushed
ProcessRecommendation(rec) ==
    LET none == [type |-> "", channelTitle |-> "",
                 channelId |-> [present |-> FALSE, str |-> ""],
                 reason |-> "", category |-> "",
                 confidenceScore |-> Rat(0, 1),
                 subscriberCount |-> [present |-> FALSE, num |-> 0]]
    IN IF ~Truthy(rec) \/ TypeOf(rec) # "object"
       THEN [skip |-> TRUE, item |-> none]
       ELSE IF ~HasRequiredFields(rec)
       THEN [skip |-> TRUE, item |-> none]
       ELSE [skip |-> FALSE,
             item |->
               [type |-> IF TypeOf(rec.type) # "string" \/ rec.type.str \notin RecTypes
                         THEN "channel"
                         ELSE rec.type.str,
                channelTitle |-> rec.channelTitle.str,
                channelId |-> IF TypeOf(rec.channelId) = "string"
                              THEN [present |-> TRUE, str |-> rec.channelId.str]
                              ELSE [present |-> FALSE, str |-> ""],
                reason |-> rec.reason.str,
                category |-> IF TypeOf(rec.category) # "string" \/ ~Truthy(rec.category)
                             THEN "General"
                             ELSE rec.category.str,
                confidenceScore |->
                    IF TypeOf(rec.confidenceScore) # "number"
                    THEN Rat(DefaultConfidenceNum, DefaultConfidenceDen)
                    ELSE Clamp01(NumberOf(rec.confidenceScore)),
                subscriberCount |->
                    IF TypeOf(rec.subscriberCount) = "number"
                    THEN [present |-> TRUE, num |-> rec.subscriberCount.num]
                    ELSE [present |-> FALSE, num |-> 0]]]

\* a loop that gives up at the first entry it cannot use
RECURSIVE CollectUntilInvalid(_, _, _)
CollectUntilInvalid(items, index, recommendations) ==
    IF index > Len(items)
    THEN recommendations
    ELSE LET r == ProcessRecommendation(items[index])
         IN IF r.skip
            THEN recommendations
            ELSE CollectUntilInvalid(items, index + 1, Append(recommendations, r.item))

\* for (index = 0; index < length; index++) { ... continue / push ... }
RECURSIVE CollectRecommendations(_, _, _)
CollectRecommendations(items, index, recommendations) ==
    IF index > Len(items)
    THEN recommendations
    ELSE LET r == ProcessRecommendation(items[index])
         IN CollectRecommendations(items, index + 1,
                IF r.skip THEN recommendations ELSE Append(recommendations, r.item))

RecsError(msg) ==
    [status |-> "error", error |-> msg, detail |-> NoSyntaxError,
     recommendations |-> <<>>]
RecsNotRun ==
    [status |-> "none", error |-> "", detail |-> NoSyntaxError,
     recommendations |-> <<>>]

\* a final check that lets an empty result through
FinishRecommendationsAllowEmpty(recommendations) ==
    [status |-> "ok", error |-> "", detail |-> NoSyntaxError,
          recommendations |-> recommendations]

\* if (recommendations.length === 0) throw ...; return { recommendations }
FinishRecommendations(recommendations) ==
    IF Len(recommendations) = 0
    THEN RecsError(MsgNoValidRecs)
    ELSE [status |-> "ok", error |-> "", detail |-> NoSyntaxError,
          recommendations |-> recommendations]

ValidateRecommendations(parsed) ==
    IF ~Truthy(parsed) \/ TypeOf(parsed) # "object"
    THEN RecsError(MsgNotObject)
    ELSE IF parsed.recommendations.ty # "array"
    THEN RecsError(MsgNoRecsList)
    ELSE FinishRecommendations(
             CollectRecommendations(parsed.recommendations.items, 1, <<>>))

parseRecommendationsResponse(text) ==
    LET parsed == JSONParse(FenceStripped(text))
    IN IF ~parsed.ok
       THEN [RecsError(MsgJSON) EXCEPT !.detail = parsed.error]
       ELSE ValidateRecommendations(parsed.value)

----------------------------------------------------------------------------
(* The response texts drawn *)

SeqsUpTo(S, n) == UNION {[1..k -> S] : k \in 0..n}

WeightInputs == -1..(Scale + 1)

MixedSubCategories == JSList("array", <<JSStr("x"), JSNum(1), JSStr("y")>>)

GoodCat(name, w) ==
    CatEntry("object", JSStr(name), JSNum(w),
             JSStr(IF name = "A" THEN "about A" ELSE "about B"),
             IF name = "A" THEN MixedSubCategories ELSE NoList)

GoodCats ==
    {GoodCat("A", w) : w \in WeightInputs} \cup {GoodCat("B", w) : w \in {1, Scale}}

BadCats ==
    { CatEntry("null", Undefined, Undefined, Undefined, NoList),
      [CatEntry("number", Undefined, Undefined, Undefined, NoList) EXCEPT !.num = 5],
      CatEntry("array", Undefined, Undefined, Undefined, NoList),
      CatEntry("object", Undefined, JSNum(1), JSStr("d"), NoList),
      CatEntry("object", JSStr("C"), JSStr("0.5"), JSStr("d"), NoList),
      CatEntry("object", JSStr("C"), JSNum(1), JSNull, NoList) }

CatEntries == GoodCats \cup BadCats

AnalysisDoc(cats, summary) == Doc("object", 0, "", cats, summary, NoList)

AnalysisDocs ==
    {AnalysisDoc(JSList("array", l), JSStr("s")) : l \in SeqsUpTo(CatEntries, MaxItems)}
    \cup {AnalysisDoc(JSList("array", l), s) :
            l \in SeqsUpTo(CatEntries, 1), s \in {Undefined, JSNum(3)}}
    \cup {AnalysisDoc(c, JSStr("s")) : c \in {NoList, JSList("string", <<>>)}}

\* the values drawn for category.subCategories: missing, null, a string, and
\* lists with no, some and only non-string entries
SubCategoryInputs ==
    {NoList, JSList("null", <<>>), JSList("string", <<>>), JSList("array", <<>>),
     JSList("array", <<JSNum(1), JSNull>>), MixedSubCategories,
     JSList("array", <<JSStr("y"), JSStr("x"), JSStr("y")>>)}

SummaryInputs == {JSStr(""), JSStr("a summary")}

\* a category with its required fields, subCategories as given
SubCat(name, sub) == CatEntry("object", JSStr(name), JSNum(1), JSStr(""), sub)

\* two categories over the subCategories and the summaries
SubCategoryDocs ==
    {AnalysisDoc(JSList("array", <<SubCat("A", a), SubCat("", b)>>), s) :
        a \in SubCategoryInputs, b \in SubCategoryInputs, s \in SummaryInputs}

GoodRec(type, title) ==
    RecEntry("object", type, JSStr(title), JSStr("because"), JSStr("Tech"),
             JSNum(1), Undefined, Undefined)

GoodRecs ==
    {GoodRec(t, title) : t \in {JSStr("hidden_gem"), JSStr("bogus")},
                         title \in {"T1", "T2"}}
    \cup {RecEntry("object", Undefined, JSStr("T3"), JSStr("because"), Undefined,
                   Undefined, JSStr("UC1"), JSNum(1000))}

BadRecs ==
    { RecEntry("null", Undefined, Undefined, Undefined, Undefined, Undefined,
               Undefined, Undefined),
      RecEntry("array", Undefined, Undefined, Undefined, Undefined, Undefined,
               Undefined, Undefined),
      RecEntry("object", JSStr("channel"), Undefined, JSStr("because"),
               JSStr("Tech"), JSNum(1), Undefined, Undefined),
      RecEntry("object", JSStr("channel"), JSStr(""), JSStr("because"),
               JSStr("Tech"), JSNum(1), Undefined, Undefined),
      RecEntry("object", JSStr("channel"), JSStr("T4"), JSNum(1),
               JSStr("Tech"), JSNum(1), Undefined, Undefined),
      RecEntry("object", JSStr("channel"), JSStr("T4"), JSStr(""),
               JSStr("Tech"), JSNum(1), Undefined, Undefined) }

RecEntries == GoodRecs \cup BadRecs

RecsDoc(recs) == Doc("object", 0, "", NoList, Undefined, recs)

RecsDocs ==
    {RecsDoc(JSList("array", l)) : l \in SeqsUpTo(RecEntries, MaxItems)}
    \cup {RecsDoc(c) : c \in {NoList, JSList("object", <<>>)}}

\* the values drawn for the optional fields of a recommendation entry
TypeInputs ==
    {Undefined, JSNum(1), JSStr("bogus"), JSStr(""),
     JSStr("channel"), JSStr("hidden_gem"), JSStr("content_gap")}
CategoryInputs == {Undefined, JSNull, JSNum(2), JSStr(""), JSStr("Tech")}
ScoreInputs ==
    {Undefined, JSNull, JSStr("0.9")} \cup {JSNum(n) : n \in WeightInputs}

\* an entry with its required fields, the optional ones as given
ShapedRec(type, category, score) ==
    RecEntry("object", type, JSStr("T1"), JSStr("because"), category, score,
             Undefined, Undefined)

\* one entry over the types and categories; two entries over the scores
ShapedRecsDocs ==
    {RecsDoc(JSList("array", <<ShapedRec(t, c, JSNum(1))>>)) :
        t \in TypeInputs, c \in CategoryInputs}
    \cup {RecsDoc(JSList("array", <<ShapedRec(JSStr("channel"), JSStr("Tech"), a),
                                    ShapedRec(Undefined, Undefined, b)>>)) :
            a \in ScoreInputs, b \in ScoreInputs}
    \cup {RecsDoc(JSList("array",
               <<ShapedRec(JSStr("channel"), JSStr("Tech"), JSNum(Scale + 1)),
                 ShapedRec(JSStr("channel"), JSStr("Tech"), JSNum(-1)),
                 ShapedRec(JSStr("channel"), JSStr("Tech"), JSStr("0.9"))>>))}

\* valid JSON whose top-level value is no plain object
OtherDocs ==
    { ScalarDoc(JSNull), ScalarDoc(JSNum(0)), ScalarDoc(JSNum(5)),
      ScalarDoc(JSStr("just a string")),
      Doc("array", 0, "", NoList, Undefined, NoList) }

Docs == AnalysisDocs \cup RecsDocs \cup OtherDocs

\* the documents drawn over the optional fields
\* the values drawn for channelId and subscriberCount
ChannelIdInputs == {Undefined, JSNull, JSNum(5), JSStr(""), JSStr("UC1")}
SubscriberCountInputs == {Undefined, JSNull, JSStr("1000"), JSNum(0), JSNum(1000)}

\* one entry with its required fields over the two optional properties
OptionalFieldDocs ==
    {RecsDoc(JSList("array",
         <<RecEntry("object", JSStr("channel"), JSStr("T1"), JSStr("because"),
                    JSStr("Tech"), JSNum(1), id, count)>>)) :
        id \in ChannelIdInputs, count \in SubscriberCountInputs}

ShapedDocs == SubCategoryDocs \cup ShapedRecsDocs \cup OptionalFieldDocs

\* the documents drawn inside a code fence
FencedDocs ==
    { AnalysisDoc(JSList("array", <<GoodCat("A", 1), GoodCat("B", Scale)>>), JSStr("s")),
      AnalysisDoc(JSList("array", <<GoodCat("A", 1)>>), Undefined),
      RecsDoc(JSList("array", <<GoodRec(JSStr("bogus"), "T1")>>)),
      RecsDoc(JSList("array", <<>>)),
      ScalarDoc(JSStr("just a string")) }

Wrapping(kind, lead, tag, nlOpen, nlClose, trail) ==
    [kind |-> kind, lead |-> lead, tag |-> tag, nlOpen |-> nlOpen,
     nlClose |-> nlClose, trail |-> trail]

RawWrap == Wrapping("raw", FALSE, "none", FALSE, FALSE, FALSE)
OtherWrap == Wrapping("other", FALSE, "none", FALSE, FALSE, FALSE)

FencedWraps ==
    {Wrapping("fenced", lead, tag, nlOpen, nlClose, trail) :
        lead \in BOOLEAN, tag \in {"none", "json", "tag"},
        nlOpen \in BOOLEAN, nlClose \in BOOLEAN, trail \in BOOLEAN}

\* document d in a code fence: whitespace, the opening fence with its tag,
\* the document, the closing fence, whitespace
FencedText(d, w) ==
    (IF w.lead THEN <<WS, NL>> ELSE <<>>)
    \o <<FENCE>>
    \o (CASE w.tag = "json" -> <<JSONWORD>>
          [] w.tag = "tag" -> <<TAGWORD>>
          [] OTHER -> <<>>)
    \o (IF w.nlOpen THEN <<NL>> ELSE <<>>)
    \o <<DocTok(d)>>
    \o (IF w.nlClose THEN <<NL>> ELSE <<>>)
    \o <<FENCE>>
    \o (IF w.trail THEN <<NL, WS>> ELSE <<>>)

\* texts that are no JSON once the fence is stripped
OtherTexts ==
    { <<>>, <<GARBAGE>>, <<WS, GARBAGE, NL>>,
      <<FENCE, JSONWORD, NL, GARBAGE, NL, FENCE>>,
      <<DocTok(ScalarDoc(JSNum(5))), GARBAGE>>,
      <<GARBAGE, FENCE, NL, DocTok(ScalarDoc(JSNum(5))), NL, FENCE>>,
      <<PARTIAL>>, <<FENCE, JSONWORD, NL, PARTIAL, NL, FENCE>>,
      <<PARTIAL, WS, GARBAGE>>,
      <<GARBAGE, WS, GARBAGE, WS, GARBAGE, NL>> }

\* texts with an opening fence and no closing one, and padded raw documents
LooseTexts ==
    { [payload |-> RecsDoc(JSList("array", <<GoodRec(JSStr("bogus"), "T1")>>)),
       text |-> <<FENCE, JSONWORD, NL,
                  DocTok(RecsDoc(JSList("array", <<GoodRec(JSStr("bogus"), "T1")>>)))>>],
      [payload |-> ScalarDoc(JSNull),
       text |-> <<WS, DocTok(ScalarDoc(JSNull)), NL, WS>>] }

----------------------------------------------------------------------------
(* The provider: llm/github.ts and the cache of llm/index.ts *)

\* orchestrator invocations followed at once
MaxReqs == 2
\* provider instances that may be created
MaxInstances == 3

ReqIds == 1..MaxReqs
Tokens == {"", "ghp_a", "ghp_b"}

Provider(id, token) == [id |-> id, token |-> token]
NoProvider == Provider(0, "")

\* GitHubModelsProvider.isConfigured
isConfigured(p) == p.token # ""

\* createGitHubModelsProvider: null without a token, else a new instance
createGitHubModelsProvider(token, id) ==
    IF token = "" THEN NoProvider ELSE Provider(id, token)

\* a lookup that never consults the cache
getLLMProviderUncached(cache, token, id) ==
    LET githubProvider == createGitHubModelsProvider(token, id)
    IN IF githubProvider # NoProvider /\ isConfigured(githubProvider)
       THEN [cached |-> githubProvider, nextId |-> id + 1, threw |-> FALSE,
             provider |-> githubProvider]
       ELSE [cached |-> NoProvider, nextId |-> id, threw |-> TRUE,
             provider |-> NoProvider]

\* a lookup that returns the provider it built without keeping it
getLLMProviderForgetful(cache, token, id) ==
    IF cache # NoProvider
    THEN [cached |-> cache, nextId |-> id, threw |-> FALSE, provider |-> cache]
    ELSE LET githubProvider == createGitHubModelsProvider(token, id)
         IN IF githubProvider # NoProvider /\ isConfigured(githubProvider)
            THEN [cached |-> cache, nextId |-> id + 1, threw |-> FALSE,
                  provider |-> githubProvider]
            ELSE [cached |-> cache, nextId |-> id, threw |-> TRUE,
                  provider |-> NoProvider]

\* getLLMProvider: the cache after the call, the next instance identity,
\* whether it threw, and the provider returned
getLLMProvider(cache, token, id) ==
    IF cache # NoProvider
    THEN [cached |-> cache, nextId |-> id, threw |-> FALSE, provider |-> cache]
    ELSE LET githubProvider == createGitHubModelsProvider(token, id)
             created == IF githubProvider # NoProvider THEN id + 1 ELSE id
         IN IF githubProvider # NoProvider /\ isConfigured(githubProvider)
            THEN [cached |-> githubProvider, nextId |-> created, threw |-> FALSE,
                  provider |-> githubProvider]
            ELSE [cached |-> cache, nextId |-> created, threw |-> TRUE,
                  provider |-> NoProvider]

\* what the last caller of the llm module got
Got(op, threw, p, configured) ==
    [op |-> op, threw |-> threw, provider |-> p, configured |-> configured]
GotNothing == Got("none", FALSE, NoProvider, FALSE)

\* an entry of data.choices: null, or an object with message.content
Choice(text) == [ty |-> "object", content |-> text]
NullChoice == [ty |-> "null", content |-> <<>>]

\* an upstream HTTP response: response.ok, response.status, the error body
\* of response.text(), and the `choices` of response.json()
Upstream(ok, status, body, choices) ==
    [ok |-> ok, status |-> status, body |-> body, choices |-> choices]
NoUpstream == Upstream(FALSE, 0, "", NoList)

\* what complete() settles with: a thrown Error (its message: the fixed words
\* and the status and body interpolated), or the completion returned
Settled(kind, error, status, body, text) ==
    [kind |-> kind, error |-> error, status |-> status, body |-> body,
     content |-> text, provider |-> ""]
NotSettled == Settled("none", "", 0, "", <<>>)

\* the LLMCompletionResponse returned
Completion(text) == [Settled("content", "", 0, "", text) EXCEPT !.provider = "github"]

\* a provider that returns the last choice
ProviderSettleLastChoice(up) ==
    IF ~up.ok
    THEN Settled("error", MsgProviderError, up.status, up.body, <<>>)
    ELSE IF up.choices.ty # "array" \/ Len(up.choices.items) = 0
    THEN Settled("error", MsgNoChoices, 0, "", <<>>)
    ELSE IF up.choices.items[Len(up.choices.items)].ty # "object"
    THEN Settled("error", MsgEmptyChoice, 0, "", <<>>)
    ELSE Completion(up.choices.items[Len(up.choices.items)].content)

\* GitHubModelsProvider.complete after the fetch: response.ok, choices,
\* choices[0], content
ProviderSettle(up) ==
    IF ~up.ok
    THEN Settled("error", MsgProviderError, up.status, up.body, <<>>)
    ELSE IF up.choices.ty # "array" \/ Len(up.choices.items) = 0
    THEN Settled("error", MsgNoChoices, 0, "", <<>>)
    ELSE IF up.choices.items[1].ty # "object"
    THEN Settled("error", MsgEmptyChoice, 0, "", <<>>)
    ELSE Completion(up.choices.items[1].content)

----------------------------------------------------------------------------
(* The orchestrators: analyzeTaste and generateRecommendations *)

\* temperature in tenths, maxTokens
AnalyzeTemperature == 7
AnalyzeMaxTokens == 2000
RecommendTemperature == 8
RecommendMaxTokens == 3000
\* the provider's own defaults for temperature and maxTokens
DefaultTemperature == 7
DefaultMaxTokens == 4000

Message(role, text) == [role |-> role, content |-> text]
CompleteCall(messages, temperature, maxTokens) ==
    [messages |-> messages, temperature |-> temperature, maxTokens |-> maxTokens]

\* a validation that refuses when one of the lists is empty
AnalyzeInputEmptyEither(nSubs, nLiked) == nSubs = 0 \/ nLiked = 0

\* input.subscriptions.length === 0 && input.likedVideos.length === 0
AnalyzeInputEmpty(nSubs, nLiked) == nSubs = 0 /\ nLiked = 0

\* !categories || categories.length === 0
RecommendInputEmpty(nCats) == nCats = 0

\* a call that leaves maxTokens to the provider's default
AnalyzeCallDefaultTokens ==
    CompleteCall(<<Message("system", "SYSTEM_PROMPT"),
                   Message("user", "buildAnalysisPrompt(input)")>>,
                 AnalyzeTemperature, DefaultMaxTokens)

\* the arguments analyzeTaste gives complete
AnalyzeCall ==
    CompleteCall(<<Message("system", "SYSTEM_PROMPT"),
                   Message("user", "buildAnalysisPrompt(input)")>>,
                 AnalyzeTemperature, AnalyzeMaxTokens)

\* the arguments generateRecommendations gives complete
RecommendCall ==
    CompleteCall(<<Message("system", "SYSTEM_PROMPT"),
                   Message("user", "buildPrompt(input)")>>,
                 RecommendTemperature, RecommendMaxTokens)

Request(kind, pc, nSubs, nLiked, nCats, settled, aOut, rOut) ==
    [kind |-> kind, pc |-> pc, nSubs |-> nSubs, nLiked |-> nLiked,
     nCats |-> nCats, settled |-> settled, aOut |-> aOut, rOut |-> rOut]
NoRequest == Request("none", "idle", 0, 0, 0, NotSettled, AnalysisNotRun, RecsNotRun)

\* the completions the model may reply with
ReplyTexts ==
    { FencedText(AnalysisDoc(JSList("array", <<GoodCat("A", 1), GoodCat("B", Scale)>>),
                             JSStr("s")),
                 Wrapping("fenced", FALSE, "json", TRUE, TRUE, FALSE)),
      <<DocTok(RecsDoc(JSList("array", <<GoodRec(JSStr("bogus"), "T1")>>)))>>,
      <<GARBAGE>> }

Upstreams ==
    {Upstream(FALSE, 500, "upstream error body", NoList),
     Upstream(TRUE, 200, "", JSList("array", <<>>))}
    \cup {Upstream(TRUE, 200, "", JSList("array", <<Choice(t)>>)) : t \in ReplyTexts}

\* the failure of an orchestrator, in the shape of its parser's outcome
Failed(kind, msg) ==
    [aOut |-> IF kind = "analyze" THEN AnalysisError(msg, -1) ELSE AnalysisNotRun,
     rOut |-> IF kind = "recommend" THEN RecsError(msg) ELSE RecsNotRun]

\* an orchestrator that hands every settled content to the taste parser
OutcomeAnalysisOnly(kind, settled) ==
    IF settled.kind = "error"
    THEN Failed(kind, settled.error)
    ELSE [aOut |-> parseAnalysisResponse(settled.content), rOut |-> RecsNotRun]

\* await complete(...) settles: the failure propagates, or the content is parsed
Outcome(kind, settled) ==
    IF settled.kind = "error"
    THEN Failed(kind, settled.error)
    ELSE IF kind = "analyze"
    THEN [aOut |-> parseAnalysisResponse(settled.content), rOut |-> RecsNotRun]
    ELSE [aOut |-> AnalysisNotRun,
          rOut |-> parseRecommendationsResponse(settled.content)]

----------------------------------------------------------------------------
(* GitHubModelsProvider.complete, invoked on an instance built directly *)

\* invocations of inst.complete followed at once
MaxCalls == 2

CallIds == 1..MaxCalls

\* complete(messages) with no options
BareCall == CompleteCall(<<Message("user", "hello")>>, -1, -1)

DirectCalls == {BareCall, AnalyzeCall}

\* requestBody: options.temperature ?? 0.7, options.maxTokens ?? 4000
RequestBody(call) ==
    [messages |-> call.messages,
     temperature |-> IF call.temperature = -1 THEN DefaultTemperature
                     ELSE call.temperature,
     max_tokens |-> IF call.maxTokens = -1 THEN DefaultMaxTokens
                    ELSE call.maxTokens]
NoRequestBody == [messages |-> <<>>, temperature |-> 0, max_tokens |-> 0]

\* the texts a first choice may hold: padded, fenced, or no JSON at all
ChoiceTexts ==
    { <<WS, FENCE, JSONWORD, NL, DocTok(ScalarDoc(JSNum(5))), NL, FENCE, NL>>,
      <<GARBAGE>> }

ErrorBodies == {"{\"error\":\"rate limited\"}", "upstream stack trace"}

ProviderUpstreams ==
    {Upstream(FALSE, st, b, NoList) : st \in {401, 500}, b \in ErrorBodies}
    \cup {Upstream(TRUE, 200, "", c) :
            c \in {NoList, JSList("null", <<>>), JSList("array", <<>>),
                   JSList("array", <<NullChoice>>),
                   JSList("array", <<NullChoice, Choice(<<GARBAGE>>)>>)}}
    \cup {Upstream(TRUE, 200, "", JSList("array", <<Choice(t)>>)) : t \in ChoiceTexts}
    \cup {Upstream(TRUE, 200, "", JSList("array", <<Choice(p[1]), Choice(p[2])>>)) :
            p \in {q \in ChoiceTexts \X ChoiceTexts : q[1] # q[2]}}

\* the fetches the synchronous part of complete issues: none when
\* !this.isConfigured(), else one
IssuedFetches(p) == IF isConfigured(p) THEN 1 ELSE 0

\* a provider that asks again when the upstream status is no success
FetchesAfterRetrying(up, n) == IF up.ok THEN n ELSE n + 1

\* the fetches issued once the response is there: complete throws or returns
\* without asking again
FetchesAfter(up, n) == n

PCall(pc, body, requests, up, settled) ==
    [pc |-> pc, body |-> body, requests |-> requests, up |-> up,
     settled |-> settled]
NoCall == PCall("idle", NoRequestBody, 0, NoUpstream, NotSettled)

ProvIdle ==
    /\ inst = NoProvider
    /\ pcall = [c \in CallIds |-> NoCall]

----------------------------------------------------------------------------
(* The request handlers: api/analyze.post.ts and api/recommendations.post.ts, *)
(* for the requests of one signed-in user                                     *)

\* the message of an Error: its fixed words and what is interpolated into
\* them (a category index, the JSON SyntaxError, the upstream status and body)
ErrMsg(text, index, detail, status, body) ==
    [text |-> text, index |-> index, detail |-> detail, status |-> status,
     body |-> body]
NoErrMsg == ErrMsg("", -1, NoSyntaxError, 0, "")

\* a thrown value: whether it is an Error, the statusCode it has (0: none; a
\* createError has one) and its message
Thrown(statusCode, isError, message) ==
    [statusCode |-> statusCode, isError |-> isError, message |-> message]
NotThrown == Thrown(0, FALSE, NoErrMsg)

\* createError({ statusCode, message })
CreateError(statusCode, text) ==
    Thrown(statusCode, TRUE, ErrMsg(text, -1, NoSyntaxError, 0, ""))

\* the Error an orchestrator invocation q has rejected with
OrchestratorError(q) ==
    IF q.settled.kind = "error"
    THEN Thrown(0, TRUE, ErrMsg(q.settled.error, -1, NoSyntaxError,
                                q.settled.status, q.settled.body))
    ELSE IF q.kind = "analyze"
    THEN Thrown(0, TRUE, ErrMsg(q.aOut.error, q.aOut.index, q.aOut.detail, 0, ""))
    ELSE Thrown(0, TRUE, ErrMsg(q.rOut.error, -1, q.rOut.detail, 0, ""))

\* whether the invocation q has rejected
Rejected(q) ==
    q.pc = "done" /\ (IF q.kind = "analyze" THEN q.aOut.status ELSE q.rOut.status) = "error"

GenericMessage(kind) ==
    IF kind = "analyze" THEN MsgAnalyzeFailed ELSE MsgRecommendFailed

\* a catch block that answers every failure of its own with the fixed words
CatchGeneric(kind, error) ==
    IF error.statusCode # 0
    THEN error
    ELSE CreateError(500, GenericMessage(kind))

\* the catch block: an error with a statusCode is re-thrown, anything else
\* becomes a 500 with error.message, or the fixed words when it is no Error
Catch(kind, error) ==
    IF error.statusCode # 0
    THEN error
    ELSE IF error.isError
    THEN Thrown(500, TRUE, error.message)
    ELSE CreateError(500, GenericMessage(kind))

\* rows of taste_profiles and of recommendations, with the request that
\* inserted them (0: a request before those followed)
TasteRow(run, nCats) == [run |-> run, nCats |-> nCats]
NoRow == TasteRow(-1, 0)
RecRow(run, i) == [run |-> run, i |-> i]

Database(nSubs, nLiked, taste, recs) ==
    [nSubs |-> nSubs, nLiked |-> nLiked, taste |-> taste, recs |-> recs]

\* what Promise.all([fetchSubscriptions, fetchLikedVideos]) resolved with:
\* the lengths of the two lists
Fetched(nSubs, nLiked) == [nSubs |-> nSubs, nLiked |-> nLiked]
NotFetched == Fetched(-1, -1)

\* a request: the handler's position, the taste profile row it selected, the
\* lists a sync fetched, the error its catch block caught, and the response
\* the client gets
Http(kind, pc, profile, caught, response) ==
    [kind |-> kind, pc |-> pc, profile |-> profile, fetched |-> NotFetched,
     caught |-> caught, response |-> response]
NoHttp == Http("none", "idle", NoRow, NotThrown, NotThrown)

\* the success response
Success == Thrown(200, FALSE, NoErrMsg)

ApiReplyTexts ==
    ReplyTexts \cup {<<DocTok(AnalysisDoc(JSList("array", <<>>), JSStr("s")))>>,
                     <<DocTok(RecsDoc(JSList("array", <<>>)))>>}

ApiUpstreams ==
    {Upstream(FALSE, 500, b, NoList) : b \in ErrorBodies}
    \cup {Upstream(TRUE, 200, "", JSList("array", <<>>))}
    \cup {Upstream(TRUE, 200, "", JSList("array", <<Choice(t)>>)) : t \in ApiReplyTexts}

ApiIdle ==
    /\ http = [r \in ReqIds |-> NoHttp]
    /\ db = Database(0, 0, <<>>, <<>>)

----------------------------------------------------------------------------
(* The prompts: the formatters of analyzer.ts and recommender.ts *)

\* A prompt text is a sequence of pieces: a stretch of plain text, a
\* placeholder of a template ({{name}}), a replacement pattern of
\* String.prototype.replace ($$, $&, dollar-backtick written $<, dollar-quote
\* written $>), a number printed in decimal, the title of an item, the mark
\* that the text after it is cut at n characters
Piece(k, v, n) == [k |-> k, v |-> v, n |-> n]
Lit(v) == Piece("lit", v, 0)
Slot(name) == Piece("slot", name, 0)
Pattern(p) == Piece("pattern", p, 0)
Num(n) == Piece("num", "", n)

\* array.join(sep) of an array of texts
RECURSIVE Join(_, _)
Join(texts, sep) ==
    IF texts = <<>> THEN <<>>
    ELSE IF Len(texts) = 1 THEN texts[1]
    ELSE LET half == Len(texts) \div 2
         IN Join(SubSeq(texts, 1, half), sep) \o <<sep>>
            \o Join(SubSeq(texts, half + 1, Len(texts)), sep)

\* what a replacement string stands for (GetSubstitution): $$ is a dollar,
\* $& the matched text, $< the text before the match, $> the text after it
RECURSIVE Substitute(_, _, _, _)
Substitute(repl, matched, before, after) ==
    IF repl = <<>> THEN <<>>
    ELSE IF Len(repl) = 1
    THEN LET h == Head(repl)
         IN IF h.k # "pattern" THEN <<h>>
            ELSE CASE h.v = "$$" -> <<Lit("$")>>
                   [] h.v = "$&" -> <<matched>>
                   [] h.v = "$<" -> before
                   [] h.v = "$>" -> after
                   [] OTHER -> <<h>>
    ELSE LET half == Len(repl) \div 2
         IN Substitute(SubSeq(repl, 1, half), matched, before, after)
            \o Substitute(SubSeq(repl, half + 1, Len(repl)), matched, before, after)

\* s.replace(slot, repl) with a string pattern: the first occurrence only,
\* the replacement string read for its patterns
Replace(s, slot, repl) ==
    LET at == {i \in 1..Len(s) : s[i] = slot}
        first == CHOOSE i \in at : \A j \in at : i <= j
        before == SubSeq(s, 1, first - 1)
        after == SubSeq(s, first + 1, Len(s))
    IN IF at = {} THEN s
       ELSE before \o Substitute(repl, slot, before, after) \o after

\* the defaults of the maxItems parameters
DefaultSubscriptionItems == 50
DefaultLikedVideoItems == 30
DefaultExclusionItems == 100
\* channelDescription.slice(0, 100)
DescriptionChars == 100

\* an optional maxItems argument
MaxItemsArg(given, n) == [given |-> given, n |-> n]
NoMaxItems == MaxItemsArg(FALSE, 0)
Effective(maxItems, default) == IF maxItems.given THEN maxItems.n ELSE default

\* a slice that takes the last items
SliceTail(a, end) == SubSeq(a, Len(a) - Min(end, Len(a)) + 1, Len(a))

\* array.slice(0, end): a negative end counts from the end of the array
Slice(a, end) ==
    SubSeq(a, 1, IF end < 0 THEN Max(Len(a) + end, 0) ELSE Min(end, Len(a)))

\* a ChannelData: the description is null or a string of `chars` characters
ChannelData(title, ty, description, chars) ==
    [channelTitle |-> title,
     channelDescription |-> [ty |-> ty, text |-> description, chars |-> chars]]
VideoData(videoTitle, channelTitle) ==
    [videoTitle |-> videoTitle, channelTitle |-> channelTitle]

\* the callback of formatSubscriptions: `- title`, then the description in
\* brackets when it is a non-empty string, cut at 100 characters
SubscriptionLine(sub) ==
    LET d == sub.channelDescription
        desc == IF d.chars > DescriptionChars
                THEN <<Piece("cut", "", DescriptionChars)>> \o d.text \o <<Lit("...")>>
                ELSE d.text
    IN <<Lit("- ")>> \o sub.channelTitle
       \o (IF d.ty = "string" /\ d.chars > 0
           THEN <<Lit(" (")>> \o desc \o <<Lit(")")>>
           ELSE <<>>)

\* the items formatSubscriptions renders, before the join
SubscriptionLines(subscriptions, maxItems) ==
    LET items == Slice(subscriptions, Effective(maxItems, DefaultSubscriptionItems))
    IN [i \in 1..Len(items) |-> SubscriptionLine(items[i])]

formatSubscriptions(subscriptions, maxItems) ==
    Join(SubscriptionLines(subscriptions, maxItems), Lit("\n"))

VideoLine(video) ==
    <<Lit("- \"")>> \o video.videoTitle \o <<Lit("\" by ")>> \o video.channelTitle

LikedVideoLines(videos, maxItems) ==
    LET items == Slice(videos, Effective(maxItems, DefaultLikedVideoItems))
    IN [i \in 1..Len(items) |-> VideoLine(items[i])]

formatLikedVideos(videos, maxItems) ==
    Join(LikedVideoLines(videos, maxItems), Lit("\n"))

\* the items formatExclusions renders: none for the empty list
ExclusionItems(subscriptions, maxItems) ==
    Slice(subscriptions, Effective(maxItems, DefaultExclusionItems))

formatExclusions(subscriptions, maxItems) ==
    IF Len(subscriptions) = 0
    THEN <<Lit("None")>>
    ELSE Join(ExclusionItems(subscriptions, maxItems), Lit(", "))

\* a TasteCategory handed to the recommender: texts, a weight, and the
\* optional list of subCategories
TasteCategory(name, weight, description, present, subCategories) ==
    [name |-> name, weight |-> weight, description |-> description,
     subCategories |-> [present |-> present, items |-> subCategories]]

\* x < y, on rationals
RatLess(x, y) == x.num * y.den < y.num * x.den

\* an insertion that puts x before the entries of its own weight
RECURSIVE InsertBeforeEqual(_, _)
InsertBeforeEqual(sorted, x) ==
    IF sorted = <<>> THEN <<x>>
    ELSE IF ~RatLess(x.weight, Head(sorted).weight) THEN <<x>> \o sorted
    ELSE <<Head(sorted)>> \o InsertBeforeEqual(Tail(sorted), x)

\* x goes before the first entry that (a, b) => b.weight - a.weight puts
\* after it, so behind every entry of its own weight
RECURSIVE InsertByWeight(_, _)
InsertByWeight(sorted, x) ==
    IF sorted = <<>> THEN <<x>>
    ELSE IF RatLess(Head(sorted).weight, x.weight) THEN <<x>> \o sorted
    ELSE <<Head(sorted)>> \o InsertByWeight(Tail(sorted), x)

\* a sort that turns the order of equal weights around
RECURSIVE SortUnstable(_)
SortUnstable(a) ==
    IF a = <<>> THEN <<>>
    ELSE InsertBeforeEqual(SortUnstable(SubSeq(a, 1, Len(a) - 1)), a[Len(a)])

\* categories.sort((a, b) => b.weight - a.weight): Array.prototype.sort is
\* stable, and it sorts the array it is called on
RECURSIVE SortByWeight(_)
SortByWeight(a) ==
    IF a = <<>> THEN <<>>
    ELSE InsertByWeight(SortByWeight(SubSeq(a, 1, Len(a) - 1)), a[Len(a)])

\* Math.round(cat.weight * 100), weight >= 0
Percent(weight) == (200 * weight.num + weight.den) \div (2 * weight.den)

\* the callback of formatCategories
CategoryLine(cat) ==
    <<Lit("- ")>> \o cat.name \o <<Lit(" ("), Num(Percent(cat.weight)), Lit("%): ")>>
    \o cat.description
    \o (IF cat.subCategories.present /\ Len(cat.subCategories.items) > 0
        THEN <<Lit(" (")>> \o Join(cat.subCategories.items, Lit(", ")) \o <<Lit(")")>>
        ELSE <<>>)

\* formatCategories: the lines, the text returned, and the array it was
\* given as the call leaves it
formatCategories(categories) ==
    LET sorted == SortByWeight(categories)
    IN [lines |-> [i \in 1..Len(sorted) |-> CategoryLine(sorted[i])],
        text |-> Join([i \in 1..Len(sorted) |-> CategoryLine(sorted[i])], Lit("\n")),
        categories |-> sorted]

\* USER_PROMPT_TEMPLATE of recommender.ts
RecommendTemplate ==
    <<Lit("Based on this user's taste profile, ... ### Summary\n"),
      Slot("analysisSummary"),
      Lit("\n\n### Categories (by importance)\n"),
      Slot("categories"),
      Lit("\n\n### Channels to EXCLUDE (user already subscribed)\n"),
      Slot("existingSubscriptions"),
      Lit("\n\nGenerate recommendations in this JSON format: ...")>>

\* USER_PROMPT_TEMPLATE of analyzer.ts
AnalysisTemplate ==
    <<Lit("Analyze this YouTube activity data ... ## Subscribed Channels ("),
      Slot("subscriptionCount"),
      Lit(" total):\n"),
      Slot("subscriptions"),
      Lit("\n\n## Liked Videos ("),
      Slot("likedVideoCount"),
      Lit(" total, showing sample):\n"),
      Slot("likedVideos"),
      Lit("\n\nRespond with JSON in this exact format: ...")>>

\* buildPrompt: the text, and input.tasteProfile.categories after the call
buildPrompt(categories, analysisSummary, existingSubscriptions) ==
    LET categoriesText == formatCategories(categories)
        exclusionsText == formatExclusions(existingSubscriptions, NoMaxItems)
    IN [text |-> Replace(Replace(Replace(RecommendTemplate,
                    Slot("analysisSummary"), analysisSummary),
                    Slot("categories"), categoriesText.text),
                    Slot("existingSubscriptions"), exclusionsText),
        categories |-> categoriesText.categories]

\* x || fallback, on texts: the empty string is falsy
OrElse(x, fallback) == IF x = <<>> THEN fallback ELSE x

buildAnalysisPrompt(subscriptions, likedVideos) ==
    LET subscriptionsText == formatSubscriptions(subscriptions, NoMaxItems)
        likedVideosText == formatLikedVideos(likedVideos, NoMaxItems)
    IN Replace(Replace(Replace(Replace(AnalysisTemplate,
            Slot("subscriptionCount"), <<Num(Len(subscriptions))>>),
            Slot("subscriptions"),
            OrElse(subscriptionsText, <<Lit("No subscriptions available")>>)),
            Slot("likedVideoCount"), <<Num(Len(likedVideos))>>),
            Slot("likedVideos"),
            OrElse(likedVideosText, <<Lit("No liked videos available")>>))

\* what a formatter call returned: the items rendered and the text
Result(done, threw, lines, text) ==
    [done |-> done, threw |-> threw, lines |-> lines, text |-> text]
NotCalled == Result(FALSE, FALSE, <<>>, <<>>)

Formatters ==
    {"formatSubscriptions", "formatLikedVideos", "formatExclusions",
     "formatCategories", "buildPrompt", "buildAnalysisPrompt"}

\* the arguments of the formatter calls: the lists, the optional maxItems,
\* the taste profile; `given` is tasteProfile.categories as the caller
\* built it, `categories` the same array as it is now
Args(subscriptions, likedVideos, existingSubscriptions, maxItems, categories, analysisSummary) ==
    [subscriptions |-> subscriptions, likedVideos |-> likedVideos,
     existingSubscriptions |-> existingSubscriptions, maxItems |-> maxItems,
     given |-> categories, categories |-> categories,
     analysisSummary |-> analysisSummary]
NoArgs == Args(<<>>, <<>>, <<>>, NoMaxItems, <<>>, <<>>)

\* longest list of subscriptions, liked videos and channel titles drawn
MaxListLen == 150
\* longest list of categories drawn
MaxCats == 3
\* largest maxItems given explicitly below the defaults
MaxCap == 2

\* the title of the i-th item of a list
Title(i) == Piece("title", "", i)

ListLengths ==
    0..MaxCap
    \cup UNION {{c - 1, c, c + 1} : c \in {DefaultSubscriptionItems,
                    DefaultLikedVideoItems, DefaultExclusionItems}}
    \cup {MaxListLen}

CapArgs ==
    {NoMaxItems} \cup {MaxItemsArg(TRUE, n) : n \in 0..MaxCap}
    \cup {MaxItemsArg(TRUE, MaxListLen + 1)}

PlainChannel(i) == ChannelData(<<Title(i)>>, "null", <<>>, 0)
PlainVideo(i) == VideoData(<<Title(i)>>, <<Lit("a channel")>>)

\* lists of plain items of every length around the caps
LongInputs ==
    {Args([i \in 1..n |-> PlainChannel(i)], [i \in 1..m |-> PlainVideo(i)],
          [i \in 1..n |-> <<Title(i)>>], cap, <<>>, <<>>) :
        n \in ListLengths, m \in {0, DefaultLikedVideoItems + 1}, cap \in CapArgs}

\* texts a user, a channel owner or the model may have written: plain text,
\* text holding a placeholder of a template, text holding a replacement
\* pattern
SpecialTexts ==
    {<<Slot("categories")>>, <<Slot("existingSubscriptions")>>,
     <<Slot("likedVideoCount")>>, <<Slot("likedVideos")>>,
     <<Lit("costs "), Pattern("$&")>>, <<Pattern("$$")>>,
     <<Pattern("$>")>>, <<Pattern("$<")>>}
Texts == {<<Lit("plain text")>>} \cup SpecialTexts

CategoryWeights == {Rat(0, 4), Rat(1, 4), Rat(2, 4)}

\* the i-th category of a profile, of weight w
PlainCategory(i, w) ==
    TasteCategory(<<Title(i)>>, w, <<Lit("about it")>>, i = 1,
                  <<<<Lit("x")>>, <<Lit("y")>>>>)

\* profiles of up to MaxCats categories over the weights, and one-category
\* profiles over the texts
CategoryLists ==
    UNION {{[i \in 1..n |-> PlainCategory(i, w[i])] : w \in [1..n -> CategoryWeights]} :
              n \in 0..MaxCats}
    \cup {<<TasteCategory(t, Rat(1, 1), <<Lit("about it")>>, FALSE, <<>>)>> : t \in Texts}
    \cup {<<TasteCategory(<<Title(1)>>, Rat(1, 1), t, TRUE, <<t>>)>> : t \in SpecialTexts}

RecommendInputs ==
    {Args(<<>>, <<>>, e, NoMaxItems, c, <<Lit("likes maths")>>) :
        c \in CategoryLists, e \in {<<>>, <<<<Title(1)>>, <<Title(2)>>>>}}
    \cup {Args(<<>>, <<>>, <<t>>, NoMaxItems, <<PlainCategory(1, Rat(1, 1))>>, u) :
            t \in Texts, u \in Texts}

\* descriptions: null, the empty string, a short one, one over 100 characters
Descriptions ==
    {[ty |-> "null", text |-> <<>>, chars |-> 0],
     [ty |-> "string", text |-> <<>>, chars |-> 0],
     [ty |-> "string", text |-> <<Lit("short")>>, chars |-> DescriptionChars],
     [ty |-> "string", text |-> <<Lit("long")>>, chars |-> DescriptionChars + 1]}

AnalysisInputs ==
    {Args(<<ChannelData(<<Title(1)>>, d.ty, d.text, d.chars)>>, <<PlainVideo(1)>>,
          <<>>, NoMaxItems, <<>>, <<>>) : d \in Descriptions}
    \cup {Args(<<ChannelData(t, "string", u, 1)>>, v, <<>>, NoMaxItems, <<>>, <<>>) :
            t \in Texts, u \in {<<Lit("short")>>, <<Slot("likedVideos")>>},
            v \in {<<>>, <<VideoData(<<Slot("likedVideos")>>, <<Lit("a channel")>>)>>,
                   <<VideoData(<<Lit("a video")>>, <<Pattern("$&")>>)>>}}

PromptInputs == LongInputs \cup RecommendInputs \cup AnalysisInputs

PromptIdle ==
    /\ arg = NoArgs
    /\ txt = [f \in Formatters |-> NotCalled]

----------------------------------------------------------------------------
(* The YouTube service: fetchLikedVideos and fetchSubscriptions *)

\* the default of fetchLikedVideos' maxResults
DefaultMaxResults == 200
\* channels per statistics request: i += 50, channels.slice(i, i + 50)
StatsBatch == 50

\* a page of a list response: response.ok, the ids of data.items, and
\* whether data.nextPageToken is set
Page(ok, items, next) == [ok |-> ok, items |-> items, next |-> next]

\* a YouTubeChannel: subscriberCount and videoCount are properties of an
\* enriched channel only, each a number or undefined
Channel(id, enriched, counts) == [id |-> id, enriched |-> enriched, counts |-> counts]

\* a call: its arguments, the pages and statistics the API serves it, the
\* requests issued, the locals of the loop, and how it settled
Fetch(fn, pc, maxResults, pages, stats, requested, statsRequested, collected, fetched, enrichedChannels, settled, returned) ==
    [fn |-> fn, pc |-> pc, maxResults |-> maxResults, pages |-> pages,
     stats |-> stats, requested |-> requested, statsRequested |-> statsRequested,
     collected |-> collected, fetched |-> fetched,
     enrichedChannels |-> enrichedChannels, settled |-> settled,
     returned |-> returned]
NoFetch == Fetch("none", "idle", NoMaxItems, <<>>, <<>>, 0, 0, <<>>, 0, <<>>, "none", <<>>)

\* for (const item of data.items) { videos.push(...); fetched++;
\*   if (fetched >= maxResults) return videos }
RECURSIVE PushUntil(_, _, _, _)
PushUntil(items, videos, fetched, maxResults) ==
    IF items = <<>>
    THEN [videos |-> videos, fetched |-> fetched, returned |-> FALSE]
    ELSE IF fetched + 1 >= maxResults
    THEN [videos |-> Append(videos, Head(items)), fetched |-> fetched + 1,
          returned |-> TRUE]
    ELSE PushUntil(Tail(items), Append(videos, Head(items)), fetched + 1, maxResults)

\* an enrichment that returns what it has merged when a request fails
StatsFailedPartial(channels, enrichedChannels) ==
    enrichedChannels \o SubSeq(channels, Len(enrichedChannels) + 1, Len(channels))

\* if (!response.ok) return channels
StatsFailed(channels, enrichedChannels) == channels

\* the merge of a batch: each channel with the counts of its statistics item
\* (undefined when the response has none for it)
MergeBatch(batch, withCounts) ==
    [i \in 1..Len(batch) |-> Channel(batch[i].id, TRUE, batch[i].id \in withCounts)]

\* most pages the API holds for a call
MaxPages == 5

\* the page sizes drawn: an empty page, a short one, a full one of 50
PageSizes == {0, 2, StatsBatch}

\* the n-th item of page p
ItemId(p, n) == 100 * p + n

\* the pages of a list of k pages of the sizes given: every page but the
\* last has a nextPageToken, and the last is served with `lastOk`
PagesOf(sizes, lastOk) ==
    [p \in 1..Len(sizes) |->
        Page(p < Len(sizes) \/ lastOk,
             [n \in 1..sizes[p] |-> ItemId(p, n)],
             p < Len(sizes))]

PageLists ==
    UNION {{PagesOf(sizes, lastOk) : sizes \in [1..k -> PageSizes], lastOk \in BOOLEAN} :
              k \in 1..MaxPages}

\* the statistics responses: the one of batch failAt is not ok (0: none),
\* and with `missing` the responses lack the item of the first channel of
\* each batch
StatsOf(failAt, missing) ==
    [b \in 1..MaxPages |-> [ok |-> b # failAt, missing |-> missing]]

MaxResultsArgs ==
    {NoMaxItems} \cup {MaxItemsArg(TRUE, n) : n \in 0..MaxCap}
    \cup {MaxItemsArg(TRUE, StatsBatch + 1), MaxItemsArg(TRUE, 2 * StatsBatch)}

FetchCalls ==
    {Fetch("fetchLikedVideos", "page", m, pages, StatsOf(0, FALSE),
           0, 0, <<>>, 0, <<>>, "none", <<>>) :
        m \in MaxResultsArgs, pages \in PageLists}
    \cup {Fetch("fetchSubscriptions", "page", NoMaxItems, pages, StatsOf(failAt, missing),
                0, 0, <<>>, 0, <<>>, "none", <<>>) :
            pages \in PageLists, failAt \in 0..2, missing \in BOOLEAN}

YtIdle == yt = NoFetch

ParseIdle ==
    /\ content = <<>>
    /\ payload = NoDoc
    /\ wrap = OtherWrap
    /\ analysisOut = AnalysisNotRun
    /\ recsOut = RecsNotRun
    /\ reparsed = AnalysisNotRun

LLMIdle ==
    /\ cachedProvider = NoProvider
    /\ nextId = 1
    /\ got = GotNothing
    /\ calls = [r \in ReqIds |-> <<>>]
    /\ fetches = 0
    /\ req = [r \in ReqIds |-> NoRequest]

\* the orchestrators pass the Error of a parser on and never read its
\* wording: one wording is followed here, SpecParse and SpecApi draw both
Init ==
    /\ ParseIdle
    /\ env \in Tokens
    /\ LLMIdle
    /\ engine = "position"
    /\ ProvIdle
    /\ ApiIdle
    /\ PromptIdle
    /\ YtIdle

\* the environment configuration changes
SetToken ==
    /\ \E t \in Tokens \ {env} : env' = t
    /\ UNCHANGED <<extVars, parseVars, cachedProvider, nextId, got, calls, fetches, req,
                   engine, provVars, apiVars>>

\* a caller (GET /api/llm/status) calls getLLMProvider()
CallGetLLMProvider ==
    /\ nextId <= MaxInstances
    /\ LET g == getLLMProvider(cachedProvider, env, nextId)
       IN /\ cachedProvider' = g.cached
          /\ nextId' = g.nextId
          /\ got' = Got("getLLMProvider", g.threw, g.provider, FALSE)
    /\ UNCHANGED <<extVars, parseVars, env, calls, fetches, req, engine, provVars, apiVars>>

\* a caller calls isLLMConfigured(): try getLLMProvider, true unless it throws
CallIsLLMConfigured ==
    /\ nextId <= MaxInstances
    /\ LET g == getLLMProvider(cachedProvider, env, nextId)
       IN /\ cachedProvider' = g.cached
          /\ nextId' = g.nextId
          /\ got' = Got("isLLMConfigured", FALSE, NoProvider, ~g.threw)
    /\ UNCHANGED <<extVars, parseVars, env, calls, fetches, req, engine, provVars, apiVars>>

\* the synchronous part of complete(messages, options) for request r:
\* getLLMProvider, then provider.complete up to the fetch it issues
StartComplete(r, kind, nSubs, nLiked, nCats, call) ==
    LET g == getLLMProvider(cachedProvider, env, nextId)
        refused == g.threw \/ ~isConfigured(g.provider)
        msg == IF g.threw THEN MsgNoProvider ELSE MsgNotConfigured
        settled == IF refused THEN Settled("error", msg, 0, "", <<>>) ELSE NotSettled
        out == IF refused THEN Failed(kind, msg) ELSE Failed(kind, "")
    IN /\ calls' = [calls EXCEPT ![r] = Append(@, call)]
       /\ cachedProvider' = g.cached
       /\ nextId' = g.nextId
       /\ got' = Got("complete", g.threw, g.provider, FALSE)
       /\ fetches' = IF refused THEN fetches ELSE fetches + 1
       /\ req' = [req EXCEPT ![r] =
            IF refused
            THEN Request(kind, "done", nSubs, nLiked, nCats, settled, out.aOut, out.rOut)
            ELSE Request(kind, "fetching", nSubs, nLiked, nCats, NotSettled,
                         AnalysisNotRun, RecsNotRun)]

\* the invocations are named in the order they are made
InOrder(r) == \A q \in ReqIds : q < r => req[q].kind # "none"

\* analyzeTaste(input) up to its await
AnalyzeTaste(r) ==
    /\ req[r].kind = "none"
    /\ InOrder(r)
    /\ nextId <= MaxInstances
    /\ \E nSubs \in 0..1, nLiked \in 0..1 :
        IF AnalyzeInputEmpty(nSubs, nLiked)
        THEN /\ req' = [req EXCEPT ![r] =
                    Request("analyze", "done", nSubs, nLiked, 0, NotSettled,
                            AnalysisError(MsgNoData, -1), RecsNotRun)]
             /\ UNCHANGED <<cachedProvider, nextId, got, calls, fetches>>
        ELSE StartComplete(r, "analyze", nSubs, nLiked, 0, AnalyzeCall)
    /\ UNCHANGED <<extVars, parseVars, env, engine, provVars, apiVars>>

\* generateRecommendations(input) up to its await
GenerateRecommendations(r) ==
    /\ req[r].kind = "none"
    /\ InOrder(r)
    /\ nextId <= MaxInstances
    /\ \E nCats \in 0..1 :
        IF RecommendInputEmpty(nCats)
        THEN /\ req' = [req EXCEPT ![r] =
                    Request("recommend", "done", 0, 0, nCats, NotSettled,
                            AnalysisNotRun, RecsError(MsgNoTasteProfile))]
             /\ UNCHANGED <<cachedProvider, nextId, got, calls, fetches>>
        ELSE StartComplete(r, "recommend", 0, 0, nCats, RecommendCall)
    /\ UNCHANGED <<extVars, parseVars, env, engine, provVars, apiVars>>

\* the fetch of request r responds; complete settles and the orchestrator ends
FetchResponds(r) ==
    /\ req[r].pc = "fetching"
    /\ \E up \in Upstreams :
        LET settled == ProviderSettle(up)
            out == Outcome(req[r].kind, settled)
        IN req' = [req EXCEPT ![r] =
                [@ EXCEPT !.pc = "done", !.settled = settled,
                          !.aOut = out.aOut, !.rOut = out.rOut]]
    /\ UNCHANGED <<extVars, parseVars, env, cachedProvider, nextId, got, calls, fetches,
                   engine, provVars, apiVars>>

Next ==
    \/ SetToken
    \/ CallGetLLMProvider
    \/ CallIsLLMConfigured
    \/ \E r \in ReqIds : AnalyzeTaste(r)
    \/ \E r \in ReqIds : GenerateRecommendations(r)
    \/ \E r \in ReqIds : FetchResponds(r)

Spec == Init /\ [][Next]_vars

----------------------------------------------------------------------------
(* The parsers applied to a drawn text *)

InitParse ==
    /\ \/ \E d \in Docs :
            /\ payload = d
            /\ wrap = RawWrap
            /\ content = <<DocTok(d)>>
       \/ \E d \in ShapedDocs :
            /\ payload = d
            /\ wrap = RawWrap
            /\ content = <<DocTok(d)>>
       \/ \E d \in FencedDocs, w \in FencedWraps :
            /\ payload = d
            /\ wrap = w
            /\ content = FencedText(d, w)
       \/ \E t \in OtherTexts :
            /\ payload = NoDoc
            /\ wrap = OtherWrap
            /\ content = t
       \/ \E l \in LooseTexts :
            /\ payload = l.payload
            /\ wrap = OtherWrap
            /\ content = l.text
    /\ analysisOut = AnalysisNotRun
    /\ recsOut = RecsNotRun
    /\ reparsed = AnalysisNotRun
    /\ env = ""
    /\ LLMIdle
    /\ engine \in Engines
    /\ ProvIdle
    /\ ApiIdle
    /\ PromptIdle
    /\ YtIdle

ParseAnalysis ==
    /\ analysisOut.status = "none"
    /\ analysisOut' = parseAnalysisResponse(content)
    /\ UNCHANGED <<extVars, content, payload, wrap, recsOut, reparsed, llmVars, engine,
                   provVars, apiVars>>

ParseRecommendations ==
    /\ recsOut.status = "none"
    /\ recsOut' = parseRecommendationsResponse(content)
    /\ UNCHANGED <<extVars, content, payload, wrap, analysisOut, reparsed, llmVars, engine,
                   provVars, apiVars>>

\* JSON.stringify of a returned TasteAnalysisResult, as the JSON text it
\* writes: every number printed exactly, a property that is undefined left out
JSONStringify(result) ==
    LET entry(c) ==
            CatEntry("object", JSStr(c.name), JSRat(c.weight.num, c.weight.den),
                     JSStr(c.description),
                     IF c.subCategories.present
                     THEN JSList("array",
                              [j \in 1..Len(c.subCategories.items) |->
                                  JSStr(c.subCategories.items[j])])
                     ELSE NoList)
    IN <<DocTok(AnalysisDoc(
            JSList("array", [i \in 1..Len(result.categories) |->
                                entry(result.categories[i])]),
            JSStr(result.analysisSummary)))>>

\* the result parseAnalysisResponse returned is serialized and parsed again
Reparse ==
    /\ analysisOut.status = "ok"
    /\ reparsed.status = "none"
    /\ reparsed' = parseAnalysisResponse(JSONStringify(analysisOut))
    /\ UNCHANGED <<extVars, content, payload, wrap, analysisOut, recsOut, llmVars, engine,
                   provVars, apiVars>>

NextParse == ParseAnalysis \/ ParseRecommendations \/ Reparse

SpecParse == InitParse /\ [][NextParse]_vars

----------------------------------------------------------------------------
(* GitHubModelsProvider.complete on an instance built with any token *)

\* new GitHubModelsProvider({ token }), the token possibly empty
InitProvider ==
    /\ ParseIdle
    /\ env = ""
    /\ LLMIdle
    /\ engine \in Engines
    /\ inst \in {Provider(1, t) : t \in Tokens}
    /\ pcall = [c \in CallIds |-> NoCall]
    /\ ApiIdle
    /\ PromptIdle
    /\ YtIdle

\* inst.complete(messages, options) up to its first await: the isConfigured
\* check, the request body, the fetch
ProviderComplete(c) ==
    /\ pcall[c].pc = "idle"
    /\ \E call \in DirectCalls :
        pcall' = [pcall EXCEPT ![c] =
            IF ~isConfigured(inst)
            THEN PCall("done", NoRequestBody, IssuedFetches(inst), NoUpstream,
                       Settled("error", MsgNotConfigured, 0, "", <<>>))
            ELSE PCall("fetching", RequestBody(call), IssuedFetches(inst),
                       NoUpstream, NotSettled)]
    /\ UNCHANGED <<extVars, parseVars, llmVars, engine, inst, apiVars>>

\* the fetch of invocation c responds; complete throws or returns
ProviderResponds(c) ==
    /\ pcall[c].pc = "fetching"
    /\ \E up \in ProviderUpstreams :
        pcall' = [pcall EXCEPT ![c] =
            PCall("done", @.body, FetchesAfter(up, @.requests), up,
                  ProviderSettle(up))]
    /\ UNCHANGED <<extVars, parseVars, llmVars, engine, inst, apiVars>>

NextProvider ==
    \/ \E c \in CallIds : ProviderComplete(c)
    \/ \E c \in CallIds : ProviderResponds(c)

SpecProvider == InitProvider /\ [][NextProvider]_vars

----------------------------------------------------------------------------
(* POST /api/analyze and POST /api/recommendations.  Every await of a       *)
(* handler is a point where another request's handler may run.              *)

\* the rows stored for the user when the first request arrives
InitialDatabases ==
    { Database(0, 0, <<>>, <<>>),
      Database(1, 0, <<>>, <<>>),
      Database(0, 1, <<TasteRow(0, 0)>>, <<>>),
      Database(1, 1, <<TasteRow(0, 1)>>, <<RecRow(0, 1)>>) }

InitApi ==
    /\ ParseIdle
    /\ env \in {"", "ghp_a"}
    /\ LLMIdle
    /\ engine \in Engines
    /\ ProvIdle
    /\ http = [r \in ReqIds |-> NoHttp]
    /\ db \in InitialDatabases
    /\ PromptIdle
    /\ YtIdle

\* the requests are named in the order they arrive
MayStart(r) == \A q \in ReqIds : q < r => http[q].kind # "none"

\* requireAuth, the isLLMConfigured check (a 503 thrown outside the try
\* block), then the first await of the handler
Post(r, kind) ==
    /\ http[r].kind = "none"
    /\ MayStart(r)
    /\ nextId <= MaxInstances
    /\ LET g == getLLMProvider(cachedProvider, env, nextId)
       IN /\ cachedProvider' = g.cached
          /\ nextId' = g.nextId
          /\ got' = Got("isLLMConfigured", FALSE, NoProvider, ~g.threw)
          /\ http' = [http EXCEPT ![r] =
                IF g.threw
                THEN Http(kind, "done", NoRow, NotThrown,
                          CreateError(503, MsgHttpNotConfigured))
                ELSE Http(kind, "select", NoRow, NotThrown, NotThrown)]
    /\ UNCHANGED <<extVars, parseVars, env, calls, fetches, req, engine, provVars, db>>

PostAnalyze(r) == Post(r, "analyze")

PostRecommendations(r) == Post(r, "recommend")

\* an error thrown inside the try block of request r reaches the catch block
Fail(r, error) ==
    [http[r] EXCEPT !.pc = "done", !.caught = error,
                    !.response = Catch(http[r].kind, error)]

\* analyzeTaste(input) / generateRecommendations(input) up to the await:
\* the input check, then complete(messages, options)
OrchestratorStart(r, kind, nSubs, nLiked, nCats) ==
    IF kind = "analyze" /\ AnalyzeInputEmpty(nSubs, nLiked)
    THEN /\ req' = [req EXCEPT ![r] =
                Request(kind, "done", nSubs, nLiked, nCats, NotSettled,
                        AnalysisError(MsgNoData, -1), RecsNotRun)]
         /\ UNCHANGED <<cachedProvider, nextId, got, calls, fetches>>
    ELSE IF kind = "recommend" /\ RecommendInputEmpty(nCats)
    THEN /\ req' = [req EXCEPT ![r] =
                Request(kind, "done", nSubs, nLiked, nCats, NotSettled,
                        AnalysisNotRun, RecsError(MsgNoTasteProfile))]
         /\ UNCHANGED <<cachedProvider, nextId, got, calls, fetches>>
    ELSE StartComplete(r, kind, nSubs, nLiked, nCats,
                       IF kind = "analyze" THEN AnalyzeCall ELSE RecommendCall)

\* a handler that clears the table before it has the orchestrator's result
AwaitOrchestratorDeleting(r, q) == [http[r] EXCEPT !.pc = "delete"]

\* the handler of request r after the orchestrator has started: at the catch
\* block when the orchestrator has rejected, else awaiting it
AwaitOrchestrator(r, q) ==
    IF Rejected(q)
    THEN Fail(r, OrchestratorError(q))
    ELSE [http[r] EXCEPT !.pc = "fetching"]

\* analyze: the two selects resolve; the 400 on no data, else analyzeTaste
AnalyzeSelected(r) ==
    /\ http[r].kind = "analyze" /\ http[r].pc = "select"
    /\ IF db.nSubs = 0 /\ db.nLiked = 0
       THEN /\ http' = [http EXCEPT ![r] = Fail(r, CreateError(400, MsgHttpNoData))]
            /\ UNCHANGED llmVars
       ELSE /\ OrchestratorStart(r, "analyze", db.nSubs, db.nLiked, 0)
            /\ http' = [http EXCEPT ![r] = AwaitOrchestrator(r, req'[r])]
            /\ UNCHANGED env
    /\ UNCHANGED <<extVars, parseVars, engine, provVars, db>>

\* recommendations: the select of the taste profile (limit 1) resolves; the
\* 400 when there is none, else the select of the subscriptions
RecommendSelectedProfile(r) ==
    /\ http[r].kind = "recommend" /\ http[r].pc = "select"
    /\ http' = [http EXCEPT ![r] =
            IF db.taste = <<>>
            THEN Fail(r, CreateError(400, MsgHttpNoTasteProfile))
            ELSE [@ EXCEPT !.pc = "selectSubs", !.profile = db.taste[1]]]
    /\ UNCHANGED <<extVars, parseVars, llmVars, engine, provVars, db>>

\* recommendations: the subscriptions are there; generateRecommendations
RecommendSelectedSubs(r) ==
    /\ http[r].kind = "recommend" /\ http[r].pc = "selectSubs"
    /\ OrchestratorStart(r, "recommend", 0, 0, http[r].profile.nCats)
    /\ http' = [http EXCEPT ![r] = AwaitOrchestrator(r, req'[r])]
    /\ UNCHANGED <<extVars, parseVars, env, engine, provVars, db>>

\* the fetch of request r responds: complete settles, the orchestrator
\* parses, and the handler goes on to its delete, or to its catch block
OrchestratorSettles(r) ==
    /\ http[r].pc = "fetching"
    /\ \E up \in ApiUpstreams :
        LET settled == ProviderSettle(up)
            out == Outcome(req[r].kind, settled)
        IN req' = [req EXCEPT ![r] =
                [@ EXCEPT !.pc = "done", !.settled = settled,
                          !.aOut = out.aOut, !.rOut = out.rOut]]
    /\ http' = [http EXCEPT ![r] =
            IF Rejected(req'[r])
            THEN Fail(r, OrchestratorError(req'[r]))
            ELSE [@ EXCEPT !.pc = "delete"]]
    /\ UNCHANGED <<extVars, parseVars, env, cachedProvider, nextId, got, calls, fetches,
                   engine, provVars, db>>

\* await db.delete(...).where(userId): the user's rows of the table go
DeleteRows(r) ==
    /\ http[r].pc = "delete"
    /\ db' = IF http[r].kind = "analyze"
             THEN [db EXCEPT !.taste = <<>>]
             ELSE [db EXCEPT !.recs = <<>>]
    /\ http' = [http EXCEPT ![r].pc = "insert"]
    /\ UNCHANGED <<extVars, parseVars, llmVars, engine, provVars>>

\* the rows request r inserts: one taste profile, or one row per recommendation
NewRows(r) ==
    IF http[r].kind = "analyze"
    THEN <<TasteRow(r, Len(req[r].aOut.categories))>>
    ELSE [i \in 1..Len(req[r].rOut.recommendations) |-> RecRow(r, i)]

\* await db.insert(...).values(...).returning(): the rows are stored and
\* the handler returns, or the database throws
InsertRows(r) ==
    /\ http[r].pc = "insert"
    /\ \/ /\ db' = IF http[r].kind = "analyze"
                   THEN [db EXCEPT !.taste = @ \o NewRows(r)]
                   ELSE [db EXCEPT !.recs = @ \o NewRows(r)]
          /\ http' = [http EXCEPT ![r] = [@ EXCEPT !.pc = "done", !.response = Success]]
       \/ /\ db' = db
          /\ http' = [http EXCEPT ![r] =
                Fail(r, Thrown(0, TRUE, ErrMsg(MsgDatabase, -1, NoSyntaxError, 0, "")))]
    /\ UNCHANGED <<extVars, parseVars, llmVars, engine, provVars>>

\* POST /api/youtube/sync: requireAuth, then the two fetches are started
\* and the handler awaits them
PostSync(r) ==
    /\ http[r].kind = "none"
    /\ MayStart(r)
    /\ http' = [http EXCEPT ![r] = Http("sync", "youtube", NoRow, NotThrown, NotThrown)]
    /\ UNCHANGED <<extVars, parseVars, llmVars, engine, provVars, db>>

\* the lists drawn for YouTube to return: none, liked videos only, both
FetchedLists == {Fetched(0, 0), Fetched(0, 1), Fetched(1, 1)}

\* Promise.all settles: with the two lists, or with the Error of the fetch
\* that failed, which the catch block answers with its fixed 500
YouTubeSettles(r) ==
    /\ http[r].kind = "sync" /\ http[r].pc = "youtube"
    /\ \/ \E lists \in FetchedLists :
            http' = [http EXCEPT ![r] =
                [@ EXCEPT !.pc = "deleteSubscriptions", !.fetched = lists]]
       \/ \E text \in {MsgFetchSubscriptions, MsgFetchLikedVideos} :
            http' = [http EXCEPT ![r] =
                [@ EXCEPT !.pc = "done",
                          !.caught = Thrown(0, TRUE, ErrMsg(text, -1, NoSyntaxError, 0, "")),
                          !.response = CreateError(500, MsgSyncFailed)]]
    /\ UNCHANGED <<extVars, parseVars, llmVars, engine, provVars, db>>

\* where the sync handler goes after its deletes and after each insert:
\* an insert is awaited only for a list that is not empty
AfterDeletes(h) ==
    IF h.fetched.nSubs > 0 THEN [h EXCEPT !.pc = "insertSubscriptions"]
    ELSE IF h.fetched.nLiked > 0 THEN [h EXCEPT !.pc = "insertLikedVideos"]
    ELSE [h EXCEPT !.pc = "done", !.response = Success]
AfterInsertSubscriptions(h) ==
    IF h.fetched.nLiked > 0 THEN [h EXCEPT !.pc = "insertLikedVideos"]
    ELSE [h EXCEPT !.pc = "done", !.response = Success]

\* await db.delete(subscriptions).where(userId)
SyncDeleteSubscriptions(r) ==
    /\ http[r].pc = "deleteSubscriptions"
    /\ db' = [db EXCEPT !.nSubs = 0]
    /\ http' = [http EXCEPT ![r].pc = "deleteLikedVideos"]
    /\ UNCHANGED <<extVars, parseVars, llmVars, engine, provVars>>

\* await db.delete(likedVideos).where(userId)
SyncDeleteLikedVideos(r) ==
    /\ http[r].pc = "deleteLikedVideos"
    /\ db' = [db EXCEPT !.nLiked = 0]
    /\ http' = [http EXCEPT ![r] = AfterDeletes(@)]
    /\ UNCHANGED <<extVars, parseVars, llmVars, engine, provVars>>

\* await db.insert(subscriptions).values(...)
SyncInsertSubscriptions(r) ==
    /\ http[r].pc = "insertSubscriptions"
    /\ db' = [db EXCEPT !.nSubs = @ + http[r].fetched.nSubs]
    /\ http' = [http EXCEPT ![r] = AfterInsertSubscriptions(@)]
    /\ UNCHANGED <<extVars, parseVars, llmVars, engine, provVars>>

\* await db.insert(likedVideos).values(...), and the handler returns
SyncInsertLikedVideos(r) ==
    /\ http[r].pc = "insertLikedVideos"
    /\ db' = [db EXCEPT !.nLiked = @ + http[r].fetched.nLiked]
    /\ http' = [http EXCEPT ![r] = [@ EXCEPT !.pc = "done", !.response = Success]]
    /\ UNCHANGED <<extVars, parseVars, llmVars, engine, provVars>>

NextApi ==
    \/ \E r \in ReqIds : PostAnalyze(r)
    \/ \E r \in ReqIds : PostRecommendations(r)
    \/ \E r \in ReqIds : AnalyzeSelected(r)
    \/ \E r \in ReqIds : RecommendSelectedProfile(r)
    \/ \E r \in ReqIds : RecommendSelectedSubs(r)
    \/ \E r \in ReqIds : OrchestratorSettles(r)
    \/ \E r \in ReqIds : DeleteRows(r)
    \/ \E r \in ReqIds : InsertRows(r)
    \/ \E r \in ReqIds : PostSync(r)
    \/ \E r \in ReqIds : YouTubeSettles(r)
    \/ \E r \in ReqIds : SyncDeleteSubscriptions(r)
    \/ \E r \in ReqIds : SyncDeleteLikedVideos(r)
    \/ \E r \in ReqIds : SyncInsertSubscriptions(r)
    \/ \E r \in ReqIds : SyncInsertLikedVideos(r)

SpecApi == InitApi /\ [][NextApi]_vars

----------------------------------------------------------------------------
(* The formatters applied to drawn arguments *)

InitPrompt ==
    /\ ParseIdle
    /\ env = ""
    /\ LLMIdle
    /\ engine = "position"
    /\ ProvIdle
    /\ ApiIdle
    /\ arg \in PromptInputs
    /\ txt = [f \in Formatters |-> NotCalled]
    /\ YtIdle

PromptFrame ==
    UNCHANGED <<parseVars, llmVars, engine, provVars, apiVars, yt>>

Returned(lines, text) == Result(TRUE, FALSE, lines, text)

FormatSubscriptions ==
    /\ ~txt["formatSubscriptions"].done
    /\ txt' = [txt EXCEPT !["formatSubscriptions"] =
                Returned(SubscriptionLines(arg.subscriptions, arg.maxItems),
                         formatSubscriptions(arg.subscriptions, arg.maxItems))]
    /\ UNCHANGED arg
    /\ PromptFrame

FormatLikedVideos ==
    /\ ~txt["formatLikedVideos"].done
    /\ txt' = [txt EXCEPT !["formatLikedVideos"] =
                Returned(LikedVideoLines(arg.likedVideos, arg.maxItems),
                         formatLikedVideos(arg.likedVideos, arg.maxItems))]
    /\ UNCHANGED arg
    /\ PromptFrame

FormatExclusions ==
    /\ ~txt["formatExclusions"].done
    /\ txt' = [txt EXCEPT !["formatExclusions"] =
                Returned(IF Len(arg.existingSubscriptions) = 0 THEN <<>>
                         ELSE ExclusionItems(arg.existingSubscriptions, arg.maxItems),
                         formatExclusions(arg.existingSubscriptions, arg.maxItems))]
    /\ UNCHANGED arg
    /\ PromptFrame

\* formatCategories(categories): the array given is the caller's
FormatCategories ==
    /\ ~txt["formatCategories"].done
    /\ LET f == formatCategories(arg.categories)
       IN /\ txt' = [txt EXCEPT !["formatCategories"] = Returned(f.lines, f.text)]
          /\ arg' = [arg EXCEPT !.categories = f.categories]
    /\ PromptFrame

\* generateRecommendations(input) up to its await: the check of the
\* categories, then buildPrompt(input)
BuildPrompt ==
    /\ ~txt["buildPrompt"].done
    /\ IF RecommendInputEmpty(Len(arg.categories))
       THEN /\ txt' = [txt EXCEPT !["buildPrompt"] = Result(TRUE, TRUE, <<>>, <<>>)]
            /\ UNCHANGED arg
       ELSE LET b == buildPrompt(arg.categories, arg.analysisSummary,
                                 arg.existingSubscriptions)
            IN /\ txt' = [txt EXCEPT !["buildPrompt"] = Returned(<<>>, b.text)]
               /\ arg' = [arg EXCEPT !.categories = b.categories]
    /\ PromptFrame

\* buildAnalysisPrompt(input), as analyzeTaste calls it
BuildAnalysisPrompt ==
    /\ ~txt["buildAnalysisPrompt"].done
    /\ txt' = [txt EXCEPT !["buildAnalysisPrompt"] =
                Returned(<<>>, buildAnalysisPrompt(arg.subscriptions, arg.likedVideos))]
    /\ UNCHANGED arg
    /\ PromptFrame

NextPrompt ==
    \/ FormatSubscriptions
    \/ FormatLikedVideos
    \/ FormatExclusions
    \/ FormatCategories
    \/ BuildPrompt
    \/ BuildAnalysisPrompt

SpecPrompt == InitPrompt /\ [][NextPrompt]_vars

----------------------------------------------------------------------------
(* A call of fetchLikedVideos or fetchSubscriptions against the pages the
   API holds *)

InitYouTube ==
    /\ ParseIdle
    /\ env = ""
    /\ LLMIdle
    /\ engine = "position"
    /\ ProvIdle
    /\ ApiIdle
    /\ PromptIdle
    /\ yt \in FetchCalls

YtFrame ==
    UNCHANGED <<parseVars, llmVars, engine, provVars, apiVars, arg, txt>>

Settle(call, how, value) ==
    [call EXCEPT !.pc = "done", !.settled = how, !.returned = value]

\* one turn of the do-while of fetchLikedVideos: the request of the next
\* page, and what is done with the response
LikedVideosPage ==
    /\ yt.fn = "fetchLikedVideos"
    /\ yt.pc = "page"
    /\ LET sent == [yt EXCEPT !.requested = @ + 1]
           page == yt.pages[sent.requested]
           maxResults == Effective(yt.maxResults, DefaultMaxResults)
           pushed == PushUntil(page.items, yt.collected, yt.fetched, maxResults)
           after == [sent EXCEPT !.collected = pushed.videos, !.fetched = pushed.fetched]
       IN yt' = IF ~page.ok THEN Settle(sent, "threw", <<>>)
                ELSE IF pushed.returned THEN Settle(after, "returned", pushed.videos)
                ELSE IF page.next /\ pushed.fetched < maxResults THEN after
                ELSE Settle(after, "returned", pushed.videos)
    /\ YtFrame

\* one turn of the do-while of fetchSubscriptions; after the last page
\* enrichChannelsWithStats takes over, whose loop does not run for no
\* channels
SubscriptionsPage ==
    /\ yt.fn = "fetchSubscriptions"
    /\ yt.pc = "page"
    /\ LET sent == [yt EXCEPT !.requested = @ + 1]
           page == yt.pages[sent.requested]
           channels == yt.collected
                       \o [n \in 1..Len(page.items) |-> Channel(page.items[n], FALSE, FALSE)]
           after == [sent EXCEPT !.collected = channels]
       IN yt' = IF ~page.ok THEN Settle(sent, "threw", <<>>)
                ELSE IF page.next THEN after
                ELSE IF Len(channels) = 0 THEN Settle(after, "returned", <<>>)
                ELSE [after EXCEPT !.pc = "stats"]
    /\ YtFrame

\* one turn of the for loop of enrichChannelsWithStats: the request of the
\* statistics of the next 50 channels, and the merge
ChannelStatistics ==
    /\ yt.fn = "fetchSubscriptions"
    /\ yt.pc = "stats"
    /\ LET i == Len(yt.enrichedChannels)
           channels == yt.collected
           batch == SubSeq(channels, i + 1, Min(i + StatsBatch, Len(channels)))
           sent == [yt EXCEPT !.statsRequested = @ + 1]
           response == yt.stats[sent.statsRequested]
           withCounts == {batch[n].id : n \in (IF response.missing THEN 2 ELSE 1)..Len(batch)}
           enrichedChannels == yt.enrichedChannels \o MergeBatch(batch, withCounts)
           after == [sent EXCEPT !.enrichedChannels = enrichedChannels]
       IN yt' = IF ~response.ok
                THEN Settle(sent, "returned", StatsFailed(channels, yt.enrichedChannels))
                ELSE IF Len(enrichedChannels) < Len(channels) THEN after
                ELSE Settle(after, "returned", enrichedChannels)
    /\ YtFrame

NextYouTube ==
    \/ LikedVideosPage
    \/ SubscriptionsPage
    \/ ChannelStatistics

SpecYouTube == InitYouTube /\ [][NextYouTube]_vars

----------------------------------------------------------------------------
(* What the claims speak of, stated on the drawn input *)

RECURSIVE RatSum(_)
RatSum(ws) == IF ws = <<>> THEN Rat(0, 1) ELSE RatAdd(Head(ws), RatSum(Tail(ws)))

\* the bound of an input weight to [0,1], in units of 1/Scale
Bounded(n) == IF n < 0 THEN 0 ELSE IF n > Scale THEN Scale ELSE n

InputCats == payload.categories.items
InputRecs == payload.recommendations.items

RECURSIVE BoundedSum(_)
BoundedSum(entries) ==
    IF entries = <<>> THEN 0
    ELSE Bounded(Head(entries).weight.num) + BoundedSum(Tail(entries))

ReturnedWeights ==
    [i \in 1..Len(analysisOut.categories) |-> analysisOut.categories[i].weight]

\* a category entry the parser must refuse
IsBadCategory(e) ==
    \/ e.ty # "object"
    \/ e.name.ty # "string"
    \/ e.weight.ty # "number"
    \/ e.description.ty # "string"

BadIndexes == {i \in 1..Len(InputCats) : IsBadCategory(InputCats[i])}
FirstBadIndex == CHOOSE i \in BadIndexes : \A j \in BadIndexes : i <= j

\* a recommendation entry that survives
IsUsableRec(e) ==
    /\ e.ty = "object"
    /\ e.channelTitle.ty = "string" /\ e.channelTitle.str # ""
    /\ e.reason.ty = "string" /\ e.reason.str # ""

\* JSON whitespace around one JSON document
ValidJSONText(s) ==
    /\ \A i \in 1..Len(s) : s[i].k \in {"ws", "nl", "doc"}
    /\ Cardinality({i \in 1..Len(s) : s[i].k = "doc"}) = 1

DocIn(s) == s[CHOOSE i \in 1..Len(s) : s[i].k = "doc"].doc

\* the text is the serialized payload, nothing around it
RawPayload == wrap.kind = "raw"

----------------------------------------------------------------------------
C2_ClampThenNormalize ==
    analysisOut.status = "ok" =>
        /\ Len(ReturnedWeights) = Len(InputCats)
        /\ \A i \in 1..Len(ReturnedWeights) :
            LET w == ReturnedWeights[i]
                b == Bounded(InputCats[i].weight.num)
                t == BoundedSum(InputCats)
            IN /\ w.den > 0
               /\ 0 <= w.num /\ w.num <= w.den
               /\ t # 0 => w.num * t = b * w.den

\* an accepted response with a weight above 1, one below 0 and one inside
C2_Witness ==
    /\ analysisOut.status = "ok"
    /\ \E i, j, k \in 1..Len(InputCats) :
        /\ InputCats[i].weight.num > Scale
        /\ InputCats[j].weight.num < 0
        /\ InputCats[k].weight.num \in 1..(Scale - 1)

(* C3, as claimed: whenever an entry of `categories` is bad, the parse      *)
(* fails with InvalidShape naming the index of the first bad entry.         *)
C3_AsClaimed ==
    (RawPayload /\ analysisOut.status # "none" /\ payload.ty = "object"
        /\ payload.categories.ty = "array" /\ BadIndexes # {}) =>
        /\ analysisOut.status = "error"
        /\ ErrorClass(analysisOut.error) = "InvalidShape"
        /\ analysisOut.index = FirstBadIndex - 1

(* C3, amended: whenever an entry of `categories` is bad, the parse fails   *)
(* with InvalidShape and returns no category list; when analysisSummary is  *)
(* a string the failure is a Category failure naming the index of the first *)
(* bad entry, otherwise it is the missing-analysisSummary failure, which    *)
(* names no index.                                                          *)
C3_FailFast ==
    (RawPayload /\ analysisOut.status # "none" /\ payload.ty = "object"
        /\ payload.categories.ty = "array" /\ BadIndexes # {}) =>
        /\ analysisOut.status = "error"
        /\ ErrorClass(analysisOut.error) = "InvalidShape"
        /\ analysisOut.categories = <<>>
        /\ IF payload.analysisSummary.ty = "string"
           THEN /\ analysisOut.index = FirstBadIndex - 1
                /\ analysisOut.error \in {MsgCatNotObject, MsgCatName,
                                          MsgCatWeight, MsgCatDescription}
           ELSE /\ analysisOut.index = -1
                /\ analysisOut.error = MsgNoSummary

\* a good entry, then two bad ones, then the parse
C3_Witness ==
    /\ RawPayload /\ analysisOut.status = "error"
    /\ payload.categories.ty = "array" /\ payload.analysisSummary.ty = "string"
    /\ Len(InputCats) = 3
    /\ BadIndexes = {2, 3}
    /\ analysisOut.index = 1

(* C4: per-entry skip semantics: the list parseRecommendationsResponse      *)
(* returns is the in-order subsequence of the entries that are objects with *)
(* a non-empty string channelTitle and a non-empty string reason; a bad     *)
(* entry does not abort the batch.                                          *)
C4_SkipSemantics ==
    LET usable == SelectSeq(InputRecs, IsUsableRec)
        out == recsOut.recommendations
    IN /\ recsOut.status = "ok" =>
            /\ Len(out) = Len(usable)
            /\ \A i \in 1..Len(out) :
                /\ out[i].channelTitle = usable[i].channelTitle.str
                /\ out[i].reason = usable[i].reason.str
       /\ (RawPayload /\ recsOut.status # "none" /\ payload.ty = "object"
             /\ payload.recommendations.ty = "array" /\ usable # <<>>) =>
            recsOut.status = "ok"

\* a bad entry between two usable ones, both kept in order
C4_Witness ==
    /\ recsOut.status = "ok"
    /\ Len(InputRecs) = 3
    /\ IsUsableRec(InputRecs[1]) /\ ~IsUsableRec(InputRecs[2]) /\ IsUsableRec(InputRecs[3])
    /\ InputRecs[1].channelTitle # InputRecs[3].channelTitle
    /\ Len(recsOut.recommendations) = 2

(* C5: parseRecommendationsResponse fails with NoValidRecommendations       *)
(* exactly when the fence-stripped text is a JSON object with a             *)
(* `recommendations` list of which no entry survives (the empty list too);  *)
(* a successful result holds at least one recommendation.                   *)
C5_NoValidRecommendations ==
    recsOut.status # "none" =>
        LET fs == FenceStripped(content)
            wellFormed == /\ ValidJSONText(fs)
                          /\ DocIn(fs).ty = "object"
                          /\ DocIn(fs).recommendations.ty = "array"
        IN /\ (recsOut.status = "error"
                 /\ ErrorClass(recsOut.error) = "NoValidRecommendations")
              <=> (wellFormed
                     /\ SelectSeq(DocIn(fs).recommendations.items, IsUsableRec) = <<>>)
           /\ recsOut.status = "ok" => Len(recsOut.recommendations) >= 1

\* a well-formed response whose entries are all dropped
C5_Witness ==
    /\ recsOut.status = "error" /\ recsOut.error = MsgNoValidRecs
    /\ payload.recommendations.ty = "array"
    /\ Len(InputRecs) >= 2

(* C6: the failure class is decided by the first failing stage, in both     *)
(* parsers: a fence-stripped text that is no JSON gives MalformedResponse;  *)
(* JSON whose top-level value is no object, or lacks the list, or (taste    *)
(* parser) has no string analysisSummary gives InvalidShape.                *)
C6_FailureClassByStage ==
    LET fs == FenceStripped(content)
    IN /\ analysisOut.status # "none" =>
            IF ~ValidJSONText(fs)
            THEN /\ analysisOut.status = "error"
                 /\ ErrorClass(analysisOut.error) = "MalformedResponse"
            ELSE /\ ErrorClass(analysisOut.error) # "MalformedResponse"
                 /\ (\/ DocIn(fs).ty # "object"
                     \/ DocIn(fs).categories.ty # "array"
                     \/ DocIn(fs).analysisSummary.ty # "string") =>
                        /\ analysisOut.status = "error"
                        /\ ErrorClass(analysisOut.error) = "InvalidShape"
       /\ recsOut.status # "none" =>
            IF ~ValidJSONText(fs)
            THEN /\ recsOut.status = "error"
                 /\ ErrorClass(recsOut.error) = "MalformedResponse"
            ELSE /\ ErrorClass(recsOut.error) # "MalformedResponse"
                 /\ (\/ DocIn(fs).ty # "object"
                     \/ DocIn(fs).recommendations.ty # "array") =>
                        /\ recsOut.status = "error"
                        /\ ErrorClass(recsOut.error) = "InvalidShape"

\* both parsers have refused a text that is no JSON
C6_Witness ==
    /\ ~ValidJSONText(FenceStripped(content))
    /\ content # <<>>
    /\ analysisOut.error = MsgJSON
    /\ recsOut.error = MsgJSON

(* C7, as claimed: a JSON payload in a code fence, whatever the language    *)
(* tag and the whitespace around, is parsed as the payload alone is.        *)
C7_AsClaimed ==
    wrap.kind = "fenced" =>
        /\ analysisOut.status # "none" =>
              analysisOut = parseAnalysisResponse(<<DocTok(payload)>>)
        /\ recsOut.status # "none" =>
              recsOut = parseRecommendationsResponse(<<DocTok(payload)>>)

(* C7, amended: a JSON payload in a code fence whose opening fence has no   *)
(* language tag or the tag json, whatever the whitespace around the fenced  *)
(* block and the line breaks inside the fences, is parsed as the payload    *)
(* alone is.                                                                *)
C7_FenceTransparent ==
    (wrap.kind = "fenced" /\ wrap.tag \in {"none", "json"}) =>
        /\ analysisOut.status # "none" =>
              analysisOut = parseAnalysisResponse(<<DocTok(payload)>>)
        /\ recsOut.status # "none" =>
              recsOut = parseRecommendationsResponse(<<DocTok(payload)>>)

\* a payload fenced with the tag json and padded with whitespace is accepted
C7_Witness ==
    /\ wrap.kind = "fenced" /\ wrap.tag = "json" /\ wrap.lead /\ wrap.trail
    /\ analysisOut.status = "ok"
    /\ Len(analysisOut.categories) = 2

----------------------------------------------------------------------------
\* the requests whose input passed the orchestrator's validation
PassedValidation(r) ==
    \/ req[r].kind = "analyze" /\ (req[r].nSubs > 0 \/ req[r].nLiked > 0)
    \/ req[r].kind = "recommend" /\ req[r].nCats > 0

(* C8: both orchestrators reject empty input before any provider call:      *)
(* analyzeTaste with both lists empty fails with NoData, and                *)
(* generateRecommendations with no category fails with NoTasteProfile,      *)
(* without complete being invoked or a network request made; analyzeTaste   *)
(* with a non-empty list does not fail with NoData.                         *)
C8_EmptyInputRejectedBeforeCall ==
    /\ \A r \in ReqIds :
        /\ (req[r].kind = "analyze" /\ req[r].nSubs = 0 /\ req[r].nLiked = 0) =>
              /\ req[r].pc = "done"
              /\ req[r].aOut.status = "error"
              /\ ErrorClass(req[r].aOut.error) = "NoData"
              /\ calls[r] = <<>>
              /\ req[r].settled = NotSettled
        /\ (req[r].kind = "recommend" /\ req[r].nCats = 0) =>
              /\ req[r].pc = "done"
              /\ req[r].rOut.status = "error"
              /\ ErrorClass(req[r].rOut.error) = "NoTasteProfile"
              /\ calls[r] = <<>>
              /\ req[r].settled = NotSettled
        /\ (req[r].kind = "analyze" /\ (req[r].nSubs > 0 \/ req[r].nLiked > 0)) =>
              ErrorClass(req[r].aOut.error) # "NoData"
    /\ fetches <= Cardinality({r \in ReqIds : PassedValidation(r) /\ calls[r] # <<>>})

\* with a provider configured, an empty analyzeTaste and an empty
\* generateRecommendations have been refused and nothing was fetched
C8_Witness ==
    /\ env # ""
    /\ \E r, q \in ReqIds :
        /\ req[r].kind = "analyze" /\ req[r].nSubs = 0 /\ req[r].nLiked = 0
        /\ req[q].kind = "recommend" /\ req[q].nCats = 0
    /\ fetches = 0

(* C9: an invocation whose input passes validation calls complete exactly   *)
(* once, with the messages [system, user] and the fixed options (0.7 / 2000 *)
(* for analyzeTaste, 0.8 / 3000 for generateRecommendations), never again,  *)
(* and ends with the provider's failure or with the parser's outcome on the *)
(* returned content.                                                        *)
C9_OneProviderCall ==
    \A r \in ReqIds :
        PassedValidation(r) =>
            /\ Len(calls[r]) = 1
            /\ Len(calls[r][1].messages) = 2
            /\ calls[r][1].messages[1].role = "system"
            /\ calls[r][1].messages[2].role = "user"
            /\ req[r].kind = "analyze" =>
                  calls[r][1].temperature = 7 /\ calls[r][1].maxTokens = 2000
            /\ req[r].kind = "recommend" =>
                  calls[r][1].temperature = 8 /\ calls[r][1].maxTokens = 3000
            /\ req[r].pc = "done" =>
                  /\ req[r].settled.kind \in {"error", "content"}
                  /\ req[r].settled.kind = "error" =>
                        IF req[r].kind = "analyze"
                        THEN /\ req[r].aOut.status = "error"
                             /\ req[r].aOut.error = req[r].settled.error
                        ELSE /\ req[r].rOut.status = "error"
                             /\ req[r].rOut.error = req[r].settled.error
                  /\ req[r].settled.kind = "content" =>
                        IF req[r].kind = "analyze"
                        THEN req[r].aOut = parseAnalysisResponse(req[r].settled.content)
                        ELSE req[r].rOut =
                                parseRecommendationsResponse(req[r].settled.content)

\* one invocation ended with a parsed result, another with the provider's
\* failure, each after a single call
C9_Witness ==
    \E r, q \in ReqIds :
        /\ req[r].kind = "recommend" /\ req[r].pc = "done"
        /\ req[r].rOut.status = "ok"
        /\ req[q].kind = "analyze" /\ req[q].pc = "done"
        /\ req[q].settled.error = MsgProviderError
        /\ Len(calls[r]) = 1 /\ Len(calls[q]) = 1

(* C10: the provider cache is populated at most once and read-only          *)
(* afterwards: once it holds a provider it never changes, in every          *)
(* interleaving of getLLMProvider, isLLMConfigured and complete, and every  *)
(* call that returns a provider returns the cached instance, whatever the   *)
(* environment has become.                                                  *)
C10_CachePopulatedOnce ==
    /\ [](got.provider # NoProvider => got.provider = cachedProvider)
    /\ [][cachedProvider # NoProvider => cachedProvider' = cachedProvider]_vars

\* the token was changed after the cache was populated, and getLLMProvider
\* still returned the cached instance
C10_Witness ==
    /\ cachedProvider # NoProvider
    /\ env \notin {"", cachedProvider.token}
    /\ got.op = "getLLMProvider"
    /\ got.provider = cachedProvider

----------------------------------------------------------------------------
\* the invocations of inst.complete that have settled
SettledCalls == {c \in CallIds : pcall[c].pc = "done"}

\* data.choices holds at least one entry
HasChoices(up) == up.choices.ty = "array" /\ Len(up.choices.items) > 0

----------------------------------------------------------------------------
\* the requests answered
Answered == {r \in ReqIds : http[r].pc = "done"}

\* the request failed on the upstream's non-success status
ProviderFailed(r) ==
    /\ r \in Answered
    /\ req[r].settled.kind = "error"
    /\ req[r].settled.error = MsgProviderError

(* C13, as claimed: the error message a client of POST /api/analyze or      *)
(* POST /api/recommendations gets when the provider call fails does not     *)
(* depend on the upstream error body: two requests to the same route that   *)
(* fail on the same upstream status get the same message, whatever the two  *)
(* raw error bodies were.                                                   *)
C13_AsClaimed ==
    \A r, q \in ReqIds :
        (/\ ProviderFailed(r) /\ ProviderFailed(q)
         /\ http[r].kind = http[q].kind
         /\ req[r].settled.status = req[q].settled.status) =>
            http[r].response.message = http[q].response.message

(* C14: a failure raised inside a handler with a recognized classification  *)
(* reaches the client with its message, hence its classification,           *)
(* unchanged (an HTTP error is re-thrown as it is, an Error of the services *)
(* keeps its message in the 500 built for it); a 500 whose message has no   *)
(* recognized classification answers only a failure that had none.          *)
C14_ClassificationPassesThrough ==
    \A r \in Answered :
        LET e == http[r].caught
            out == http[r].response
        IN http[r].caught # NotThrown =>
            /\ out.statusCode # 200
            /\ ErrorClass(e.message.text) # "none" =>
                  /\ out.message = e.message
                  /\ ErrorClass(out.message.text) = ErrorClass(e.message.text)
                  /\ e.statusCode # 0 => out = e
            /\ ErrorClass(out.message.text) = "none" =>
                  /\ ErrorClass(e.message.text) = "none"
                  /\ e.statusCode = 0 /\ out.statusCode = 500

\* one request was answered with the InvalidShape failure of the parser and
\* another with the database's own failure, which has no classification
C14_Witness ==
    \E r, q \in Answered :
        /\ http[r].caught.statusCode = 0
        /\ ErrorClass(http[r].caught.message.text) = "InvalidShape"
        /\ http[r].response.statusCode = 500
        /\ ErrorClass(http[r].response.message.text) = "InvalidShape"
        /\ http[q].caught.message.text = MsgDatabase
        /\ ErrorClass(http[q].response.message.text) = "none"

(* C15, as claimed: once every request has been answered, whether the       *)
(* requests ran one after another or overlapped, the user has at most one   *)
(* taste profile row, and all the user's recommendation rows were inserted  *)
(* by one single request.                                                   *)
C15_AsClaimed ==
    (\A r \in ReqIds : http[r].pc \in {"idle", "done"}) =>
        /\ Len(db.taste) <= 1
        /\ \A i, j \in 1..Len(db.recs) : db.recs[i].run = db.recs[j].run

----------------------------------------------------------------------------
\* the entries of the input list that have a usable channelTitle and reason
UsableRecs == SelectSeq(InputRecs, IsUsableRec)

\* the response is the serialized payload and holds a recommendations list
RecsListParsed ==
    /\ RawPayload
    /\ payload.ty = "object"
    /\ payload.recommendations.ty = "array"
    /\ recsOut.status # "none"

(* C16: every entry with a valid channelTitle and reason is returned, in   *)
(* order; its type is the input type when that is one of channel,           *)
(* hidden_gem, content_gap and `channel` when it is missing or anything     *)
(* else; its category is `General` when the input category is missing or    *)
(* no string.                                                               *)
C16_DefaultsKeepEntry ==
    RecsListParsed =>
        /\ Len(recsOut.recommendations) = Len(UsableRecs)
        /\ \A i \in 1..Len(UsableRecs) :
             LET e == UsableRecs[i]
                 r == recsOut.recommendations[i]
             IN /\ r.channelTitle = e.channelTitle.str
                /\ r.type = IF e.type.ty = "string" /\ e.type.str \in RecTypes
                            THEN e.type.str
                            ELSE "channel"
                /\ e.category.ty # "string" => r.category = "General"

\* an accepted response whose entry had an unrecognized type and a category
\* that is no string, returned as a `channel` of category `General`
C16_Witness ==
    /\ RecsListParsed
    /\ recsOut.status = "ok"
    /\ \E i \in 1..Len(UsableRecs) :
        /\ UsableRecs[i].type = JSStr("bogus")
        /\ UsableRecs[i].category = JSNum(2)
        /\ recsOut.recommendations[i].type = "channel"
        /\ recsOut.recommendations[i].category = "General"

----------------------------------------------------------------------------
\* the confidenceScore returned for the i-th usable entry, and the one given
ScoreOut(i) == recsOut.recommendations[i].confidenceScore
ScoreIn(i) == UsableRecs[i].confidenceScore

(* C17: the confidenceScore of every returned entry is 0.7 when the input  *)
(* value is missing or no number; otherwise it is the input value bounded   *)
(* to [0,1]: exactly 0 below 0, exactly 1 above 1, unchanged in between.    *)
C17_ConfidenceDefaultOrClamped ==
    RecsListParsed =>
        \A i \in 1..Len(recsOut.recommendations) :
            IF ScoreIn(i).ty # "number"
            THEN ScoreOut(i).num * DefaultConfidenceDen
                    = DefaultConfidenceNum * ScoreOut(i).den
            ELSE IF ScoreIn(i).num < 0
            THEN ScoreOut(i).num = 0
            ELSE IF ScoreIn(i).num > ScoreIn(i).den
            THEN ScoreOut(i).num = ScoreOut(i).den
            ELSE ScoreOut(i).num * ScoreIn(i).den = ScoreIn(i).num * ScoreOut(i).den

\* an accepted list with a score above 1, a score below 0 and a score that
\* is a string, returned as 1, 0 and 0.7
C17_Witness ==
    /\ RecsListParsed
    /\ recsOut.status = "ok"
    /\ Len(recsOut.recommendations) = 3
    /\ ScoreIn(1) = JSNum(Scale + 1) /\ ScoreOut(1) = Rat(Scale, Scale)
    /\ ScoreIn(2) = JSNum(-1) /\ ScoreOut(2) = Rat(0, Scale)
    /\ ScoreIn(3).ty = "string"
    /\ ScoreOut(3) = Rat(DefaultConfidenceNum, DefaultConfidenceDen)

----------------------------------------------------------------------------
\* the string entries of a list, in order
RECURSIVE StringEntries(_)
StringEntries(items) ==
    IF items = <<>>
    THEN <<>>
    ELSE (IF Head(items).ty = "string" THEN <<Head(items).str>> ELSE <<>>)
         \o StringEntries(Tail(items))

(* C18: for every response parseAnalysisResponse accepts, the returned     *)
(* list has the length of the input `categories`, with the same names and   *)
(* descriptions in the same order; analysisSummary is the input's; each     *)
(* category's subCategories is the in-order subsequence of the string       *)
(* entries of the input subCategories, and is absent when the input has no  *)
(* subCategories list.                                                      *)
C18_OrderAndFieldsPreserved ==
    RawPayload /\ analysisOut.status = "ok" =>
        /\ Len(analysisOut.categories) = Len(InputCats)
        /\ analysisOut.analysisSummary = payload.analysisSummary.str
        /\ \A i \in 1..Len(InputCats) :
             LET e == InputCats[i]
                 c == analysisOut.categories[i]
             IN /\ c.name = e.name.str
                /\ c.description = e.description.str
                /\ IF e.subCategories.ty = "array"
                   THEN /\ c.subCategories.present
                        /\ c.subCategories.items = StringEntries(e.subCategories.items)
                   ELSE ~c.subCategories.present

\* an accepted response of two categories, the first with a list whose
\* non-string entry was dropped, the second with a string where the list
\* would be, and an empty summary
C18_Witness ==
    /\ RawPayload
    /\ analysisOut.status = "ok"
    /\ Len(InputCats) = 2
    /\ InputCats[1].subCategories = MixedSubCategories
    /\ analysisOut.categories[1].subCategories.items = <<"x", "y">>
    /\ InputCats[2].subCategories.ty = "string"
    /\ ~analysisOut.categories[2].subCategories.present
    /\ analysisOut.categories[2].name = ""
    /\ payload.analysisSummary = JSStr("")
    /\ analysisOut.analysisSummary = ""

----------------------------------------------------------------------------
\* the weights of a list of categories
WeightsOf(cats) == [i \in 1..Len(cats) |-> cats[i].weight]

\* x = y / total, on rationals
IsQuotient(x, y, total) == x.num * y.den * total.num = y.num * total.den * x.den

(* C19: when a result R of parseAnalysisResponse is serialized as JSON and *)
(* parsed again, the parse succeeds and returns the category names,         *)
(* descriptions and subCategories of R in the same order and the same       *)
(* analysisSummary; each weight is R's weight divided by the sum of R's     *)
(* weights, or R's weight itself when that sum is 0.                        *)
C19_RoundTrip ==
    reparsed.status # "none" =>
        /\ reparsed.status = "ok"
        /\ reparsed.analysisSummary = analysisOut.analysisSummary
        /\ Len(reparsed.categories) = Len(analysisOut.categories)
        /\ \A i \in 1..Len(analysisOut.categories) :
             LET c == analysisOut.categories[i]
                 d == reparsed.categories[i]
                 total == RatSum(WeightsOf(analysisOut.categories))
             IN /\ d.name = c.name
                /\ d.description = c.description
                /\ d.subCategories = c.subCategories
                /\ IsQuotient(d.weight, c.weight,
                              IF total.num > 0 THEN total ELSE Rat(1, 1))

\* a result of several categories, with and without subCategories, whose
\* input weights needed normalizing, serialized and parsed again
C19_Witness ==
    /\ RawPayload
    /\ reparsed.status = "ok"
    /\ Len(reparsed.categories) > 1
    /\ BoundedSum(InputCats) \notin {0, Scale}
    /\ \E i \in 1..Len(reparsed.categories) :
        reparsed.categories[i].subCategories.items = <<"x", "y">>
    /\ \E i \in 1..Len(reparsed.categories) :
        /\ ~reparsed.categories[i].subCategories.present
        /\ reparsed.categories[i].weight.num > 0

----------------------------------------------------------------------------
\* the text handed to JSON.parse
Handed == FenceStripped(content)

\* a failure of JSON.parse, with the parser's message and the whole text
\* that was handed to the parser
CarriesMessageAndText(out) ==
    /\ out.detail.name = "SyntaxError"
    /\ out.detail.reason # ""
    /\ out.detail.excerpt = Handed

(* C20, as the specification states it: when JSON.parse fails in either    *)
(* parser, the failure thrown carries the JSON parser's message and the     *)
(* fence-stripped text that was handed to the JSON parser.                  *)
C20_AsClaimed ==
    /\ analysisOut.error = MsgJSON => CarriesMessageAndText(analysisOut)
    /\ recsOut.error = MsgJSON => CarriesMessageAndText(recsOut)

----------------------------------------------------------------------------
(* The prompt formatters *)

\* the list a formatter was given, the cap in force, and what it renders
\* of one item
ListGiven(f) ==
    CASE f = "formatSubscriptions" -> arg.subscriptions
      [] f = "formatLikedVideos" -> arg.likedVideos
      [] f = "formatExclusions" -> arg.existingSubscriptions
CapInForce(f) ==
    IF arg.maxItems.given THEN arg.maxItems.n
    ELSE CASE f = "formatSubscriptions" -> 50
           [] f = "formatLikedVideos" -> 30
           [] f = "formatExclusions" -> 100
Rendered(f, item) ==
    CASE f = "formatSubscriptions" -> SubscriptionLine(item)
      [] f = "formatLikedVideos" -> VideoLine(item)
      [] f = "formatExclusions" -> item
ListFormatters == {"formatSubscriptions", "formatLikedVideos", "formatExclusions"}

\* C21: formatSubscriptions, formatLikedVideos and formatExclusions render
\* exactly min(inputLength, cap) items (caps 50, 30 and 100 by default), and
\* the i-th item rendered is the i-th item of the input: a prefix of the
\* input in input order, for every list and every cap
C21_PrefixCap ==
    \A f \in ListFormatters :
        txt[f].done =>
            LET input == ListGiven(f)
                cap == CapInForce(f)
                lines == txt[f].lines
            IN /\ Len(lines) = (IF Len(input) < cap THEN Len(input) ELSE cap)
               /\ \A i \in 1..Len(lines) : lines[i] = Rendered(f, input[i])

\* scenario D: a list of 150 titles under the default cap of formatExclusions
C21_Witness ==
    /\ txt["formatExclusions"].done
    /\ ~arg.maxItems.given
    /\ Len(arg.existingSubscriptions) = 150
    /\ Len(txt["formatExclusions"].lines) = 100
    /\ txt["formatExclusions"].text = Join(SubSeq(arg.existingSubscriptions, 1, 100), Lit(", "))

\* the orders in which n things can be put
Orders(n) == {p \in [1..n -> 1..n] : \A i, j \in 1..n : p[i] = p[j] => i = j}

\* C22: formatCategories renders one line per category, the lines sorted by
\* weight in descending order, and categories of equal weight in the order
\* they had in the list given
C22_SortedStable ==
    txt["formatCategories"].done =>
        LET given == arg.given
            lines == txt["formatCategories"].lines
        IN /\ Len(lines) = Len(given)
           /\ \E p \in Orders(Len(given)) :
                /\ \A i \in 1..Len(given) : lines[i] = CategoryLine(given[p[i]])
                /\ \A i, j \in 1..Len(given) :
                     i < j =>
                        /\ ~RatLess(given[p[i]].weight, given[p[j]].weight)
                        /\ ~RatLess(given[p[j]].weight, given[p[i]].weight) => p[i] < p[j]
           /\ txt["formatCategories"].text = Join(lines, Lit("\n"))

\* two categories of one weight followed by a heavier one: the heavier one
\* is rendered first, the two others in their order
C22_Witness ==
    /\ txt["formatCategories"].done
    /\ Len(arg.given) = 3
    /\ arg.given[1].weight = arg.given[2].weight
    /\ RatLess(arg.given[2].weight, arg.given[3].weight)
    /\ txt["formatCategories"].lines =
         <<CategoryLine(arg.given[3]), CategoryLine(arg.given[1]), CategoryLine(arg.given[2])>>

\* the recommendation prompt with each of its three slots holding the text
\* meant for it
RecommendPromptFilled ==
    <<RecommendTemplate[1]>> \o arg.analysisSummary
    \o <<RecommendTemplate[3]>> \o formatCategories(arg.given).text
    \o <<RecommendTemplate[5]>> \o formatExclusions(arg.existingSubscriptions, NoMaxItems)
    \o <<RecommendTemplate[7]>>

\* C23: the recommendation prompt holds the analysis summary verbatim in the
\* summary slot, the rendered categories in the categories slot and the
\* rendered exclusions in the exclusions slot, for every summary, category
\* and channel-title text, text holding a placeholder of the template or a
\* replacement pattern included
C23_AsClaimed ==
    (txt["buildPrompt"].done /\ ~txt["buildPrompt"].threw) =>
        txt["buildPrompt"].text = RecommendPromptFilled

\* the analysis prompt read back: its two headers state n and m, and its two
\* list slots hold the placeholder texts exactly when emptySubs, emptyLiked
AnalysisPromptStates(text, n, m, emptySubs, emptyLiked) ==
    /\ Len(text) >= 7
    /\ SubSeq(text, 1, 3) = <<AnalysisTemplate[1], Num(n), AnalysisTemplate[3]>>
    /\ text[Len(text)] = AnalysisTemplate[9]
    /\ \E j \in 4..(Len(text) - 3) :
         /\ SubSeq(text, j, j + 2) = <<AnalysisTemplate[5], Num(m), AnalysisTemplate[7]>>
         /\ (SubSeq(text, 4, j - 1) = <<Lit("No subscriptions available")>>) <=> emptySubs
         /\ (SubSeq(text, j + 3, Len(text) - 1) = <<Lit("No liked videos available")>>)
               <=> emptyLiked

\* C24: the taste-analysis prompt states in its two header slots the number
\* of subscriptions and of liked videos supplied, and shows
\* `No subscriptions available` / `No liked videos available` in the list
\* slot exactly when that list is empty, for every title and description,
\* text holding a placeholder of the template included
C24_AsClaimed ==
    txt["buildAnalysisPrompt"].done =>
        AnalysisPromptStates(txt["buildAnalysisPrompt"].text,
                             Len(arg.subscriptions), Len(arg.likedVideos),
                             Len(arg.subscriptions) = 0, Len(arg.likedVideos) = 0)

\* C28: a call of generateRecommendations leaves its input as it was:
\* input.tasteProfile.categories holds the same categories in the same order
\* after the call as before it, and existingSubscriptions is unchanged
C28_AsClaimed ==
    [][(~txt["buildPrompt"].done /\ txt'["buildPrompt"].done) =>
          /\ arg'.categories = arg.categories
          /\ arg'.existingSubscriptions = arg.existingSubscriptions]_vars

----------------------------------------------------------------------------
(* The YouTube service *)

\* the items of the first k pages, in order
RECURSIVE ItemsOf(_, _)
ItemsOf(pages, k) ==
    IF k = 0 THEN <<>> ELSE ItemsOf(pages, k - 1) \o pages[k].items

\* the call has been served a page that was not a success
PageFailed == \E k \in 1..yt.requested : ~yt.pages[k].ok

\* C25: fetchLikedVideos returns at most maxResults videos, the first videos
\* of the concatenation of the pages in order; it requests no further page
\* once maxResults videos are collected or a page has no nextPageToken; and
\* a non-success page makes the call fail without a partial result. For
\* every maxResults and every sequence of pages
C25_AsClaimed ==
    yt.fn = "fetchLikedVideos" =>
        LET maxResults == IF yt.maxResults.given THEN yt.maxResults.n ELSE 200
            served == ItemsOf(yt.pages, yt.requested)
        IN /\ \A k \in 1..(yt.requested - 1) :
                 /\ yt.pages[k].next
                 /\ Len(ItemsOf(yt.pages, k)) < maxResults
           /\ yt.pc = "done" =>
                IF PageFailed
                THEN yt.settled = "threw" /\ yt.returned = <<>>
                ELSE /\ yt.settled = "returned"
                     /\ Len(yt.returned) <= maxResults
                     /\ Len(yt.returned) = Min(maxResults, Len(served))
                     /\ yt.returned = SubSeq(served, 1, Len(yt.returned))

\* a statistics request of the call was answered with a non-success status
StatsRequestFailed == \E b \in 1..yt.statsRequested : ~yt.stats[b].ok

\* C26: fetchSubscriptions follows nextPageToken until a page has none and
\* returns one channel per subscription item of all pages, in page order; a
\* failed subscriptions page fails the whole call; a failed statistics
\* request does not: the call returns all channels, same length and order,
\* without subscriber and video counts
C26_AllChannelsStatsOptional ==
    (yt.fn = "fetchSubscriptions" /\ yt.pc = "done") =>
        LET items == ItemsOf(yt.pages, yt.requested)
        IN IF PageFailed
           THEN yt.settled = "threw" /\ yt.returned = <<>>
           ELSE /\ yt.settled = "returned"
                /\ \A k \in 1..(yt.requested - 1) : yt.pages[k].next
                /\ ~yt.pages[yt.requested].next
                /\ Len(yt.returned) = Len(items)
                /\ \A i \in 1..Len(items) : yt.returned[i].id = items[i]
                /\ StatsRequestFailed =>
                     \A i \in 1..Len(items) :
                        ~yt.returned[i].enriched /\ ~yt.returned[i].counts
                /\ ~StatsRequestFailed =>
                     \A i \in 1..Len(items) : yt.returned[i].enriched

\* more than 50 channels over several pages, the second statistics request
\* failed after the first was merged
C26_Witness ==
    /\ yt.fn = "fetchSubscriptions"
    /\ yt.pc = "done"
    /\ yt.requested >= 2
    /\ yt.statsRequested = 2
    /\ ~yt.stats[2].ok
    /\ Len(yt.enrichedChannels) = 50
    /\ Len(yt.returned) > 50
    /\ yt.settled = "returned"

----------------------------------------------------------------------------
(* The stored rows and the external step of a request *)

\* the external step of request r (analyzeTaste, generateRecommendations,
\* the two YouTube fetches) has completed successfully
ExternalSucceeded(r) ==
    CASE http[r].kind = "sync" -> http[r].fetched # NotFetched
      [] http[r].kind = "analyze" -> req[r].pc = "done" /\ req[r].aOut.status = "ok"
      [] http[r].kind = "recommend" -> req[r].pc = "done" /\ req[r].rOut.status = "ok"
      [] OTHER -> FALSE

\* the external step of request r has failed, and the request was answered
ExternalFailed(r) ==
    /\ http[r].pc = "done"
    /\ http[r].caught # NotThrown
    /\ CASE http[r].kind = "sync" -> http[r].fetched = NotFetched
         [] http[r].kind \in {"analyze", "recommend"} -> Rejected(req[r])
         [] OTHER -> FALSE

\* C27: in POST /api/analyze, /api/recommendations and /api/youtube/sync the
\* stored rows change (are deleted or inserted) only in a step of a request
\* whose external step has completed successfully; a request whose external
\* step failed takes no step that changes the stored rows, so they are the
\* same after it as before it
C27_RowsChangeAfterSuccessOnly ==
    [][\A r \in ReqIds :
          (http'[r] # http[r] /\ db' # db) =>
              /\ ExternalSucceeded(r)
              /\ ~ExternalFailed(r)
              /\ ExternalSucceeded(r)']_vars

\* a sync whose fetch failed and an analysis that was rejected have both
\* been answered, and the rows stored before them are all there
C27_Witness ==
    \E r, q \in ReqIds :
        /\ http[r].kind = "sync" /\ ExternalFailed(r)
        /\ http[r].response = CreateError(500, MsgSyncFailed)
        /\ http[q].kind = "analyze" /\ ExternalFailed(q)
        /\ db = Database(1, 1, <<TasteRow(0, 1)>>, <<RecRow(0, 1)>>)

----------------------------------------------------------------------------
\* a RecommendationItem as the type declares it
WellFormedItem(item) ==
    /\ item.type \in {"channel", "hidden_gem", "content_gap"}
    /\ item.channelTitle # ""
    /\ item.reason # ""
    /\ item.category # ""
    /\ item.confidenceScore.den > 0
    /\ 0 <= item.confidenceScore.num
    /\ item.confidenceScore.num <= item.confidenceScore.den
    /\ item.channelId.present \in BOOLEAN
    /\ ~item.channelId.present => item.channelId.str = ""
    /\ item.subscriberCount.present \in BOOLEAN
    /\ ~item.subscriberCount.present => item.subscriberCount.num = 0

\* C29: every item of every list parseRecommendationsResponse returns is
\* well-formed, whatever the input text: type is channel, hidden_gem or
\* content_gap; channelTitle, reason and category are non-empty strings;
\* confidenceScore is a number in [0,1]; channelId is a string or absent and
\* subscriberCount a number or absent
C29_ItemsWellFormed ==
    /\ recsOut.status = "ok" =>
          /\ Len(recsOut.recommendations) > 0
          /\ \A i \in 1..Len(recsOut.recommendations) :
                WellFormedItem(recsOut.recommendations[i])
    /\ recsOut.status # "ok" => recsOut.recommendations = <<>>
    /\ (/\ recsOut.status = "ok" /\ RawPayload
        /\ Len(payload.recommendations.items) = 1) =>
          LET given == payload.recommendations.items[1]
              item == recsOut.recommendations[1]
          IN /\ item.channelId.present <=> given.channelId.ty = "string"
             /\ item.channelId.present => item.channelId.str = given.channelId.str
             /\ item.subscriberCount.present <=> given.subscriberCount.ty = "number"
             /\ item.subscriberCount.present =>
                   item.subscriberCount.num = given.subscriberCount.num

\* a list was returned for an entry whose channelId is a number and whose
\* subscriberCount is a string: the item has neither
C29_Witness ==
    /\ recsOut.status = "ok"
    /\ RawPayload
    /\ payload.ty = "object"
    /\ payload.recommendations.ty = "array"
    /\ Len(payload.recommendations.items) = 1
    /\ payload.recommendations.items[1].channelId = JSNum(5)
    /\ payload.recommendations.items[1].subscriberCount = JSStr("1000")
    /\ ~recsOut.recommendations[1].channelId.present
    /\ ~recsOut.recommendations[1].subscriberCount.present

----------------------------------------------------------------------------
\* credentials are available: GITHUB_TOKEN is set
CredentialsAvailable == env # ""

\* C30: while no provider is configured (nothing cached, no credentials)
\* getLLMProvider throws and leaves the cache empty, and isLLMConfigured
\* returns false without throwing; a call of getLLMProvider made once
\* credentials are available succeeds and populates the cache;
\* isLLMConfigured returns true exactly when a provider is already cached or
\* credentials are available at the call
C30_ConfiguredLazily ==
    [][/\ (CallGetLLMProvider /\ cachedProvider = NoProvider /\ ~CredentialsAvailable) =>
             /\ got'.threw
             /\ got'.provider = NoProvider
             /\ cachedProvider' = NoProvider
       /\ (CallGetLLMProvider /\ cachedProvider = NoProvider /\ CredentialsAvailable) =>
             /\ ~got'.threw
             /\ cachedProvider' # NoProvider
             /\ cachedProvider'.token = env
             /\ got'.provider = cachedProvider'
       /\ CallIsLLMConfigured =>
             /\ ~got'.threw
             /\ got'.configured <=> (cachedProvider # NoProvider \/ CredentialsAvailable)
             /\ (cachedProvider = NoProvider /\ ~CredentialsAvailable) =>
                   cachedProvider' = NoProvider]_vars

\* an invocation was refused for want of a provider, the token was set
\* afterwards, and getLLMProvider has returned the provider it then cached
C30_Witness ==
    /\ \E r \in ReqIds : req[r].pc = "done" /\ req[r].settled.error = MsgNoProvider
    /\ CredentialsAvailable
    /\ got.op = "getLLMProvider"
    /\ ~got.threw
    /\ got.provider = cachedProvider
    /\ cachedProvider.token = env

====
